---- MODULE Spec2Model ----
(***************************************************************************)
(* Model of the educational content pipeline: the slug/key deriver, the    *)
(* three fan-out/fan-in orchestrators (URL -> insight, insight -> script,  *)
(* insight -> pill) over the MinIO object store, and the VEO video chain.  *)
(*                                                                         *)
(* Text is a sequence of characters; a character is a one-character string *)
(* or, for a code point outside ASCII, its "U+XXXX" name.  A markdown      *)
(* document is the sequence of its lines.  The store is modelled in MinIO  *)
(* mode (SAVE_ON_MINIO, the default of src/src/config.py).                 *)
(***************************************************************************)
EXTENDS Integers, Sequences, FiniteSets, TLC

\* ------------------------------------------------------------------ bounds
MaxItems == 2       \* source items (URLs, insight files) in one run
MaxRuns == 2        \* consecutive runs of one pipeline
MaxWorkers == 2     \* configured worker count (MAX_WORKERS)
MaxCap == 1         \* largest configured per-run cap (MAX_PILLS_PER_RUN)
MaxExistentes == 1  \* outputs of earlier runs in the store when a run starts
MaxExt == 2         \* largest extension count configured or passed (VEO_EXTENSIONS)
MaxScenes == 3      \* longest scene list handed to gerar_video_veo
MaxPolls == 1       \* status checks that can find an operation still pending
MaxSecoes == 2      \* blocks of a script handed to the scene parser
MaxNumeral == 2     \* largest numeral written in a scene header
MaxTexto == 3        \* longest text handed to slugify, in characters
MaxCenasDoRoteiro == 2    \* most scenes parsed from a script of the roteiros bucket
MaxExtensoesDoVideo == 1  \* largest VEO_EXTENSIONS of a run of processar_e_subir_videos

\* -------------------------------------------------------------- characters
LowerLetters == {"a", "c", "d", "e", "g", "i", "l", "n", "o", "p", "r", "s", "t",
                 "u", "v", "x", "z", "U+00E7", "U+00E3"}
UpperLetters == {"D", "G", "P", "S", "V", "U+00C7", "U+0130"}
Digits == {"0", "1", "2", "3"}
\* Python 3 str patterns are Unicode: \w is every alphanumeric code point and "_"
WordChars == LowerLetters \cup UpperLetters \cup Digits \cup {"_"}
\* \s
Whitespace == {" ", "\t"}
Quotes == {"'"}

\* str.lower() of one code point (U+0130 lowers to "i" followed by U+0307)
LowerChar(c) ==
    CASE c = "D" -> <<"d">>
      [] c = "G" -> <<"g">>
      [] c = "S" -> <<"s">>
      [] c = "P" -> <<"p">>
      [] c = "V" -> <<"v">>
      [] c = "U+00C7" -> <<"U+00E7">>
      [] c = "U+0130" -> <<"i", "U+0307">>
      [] OTHER -> <<c>>

RECURSIVE LowerText(_)
LowerText(s) ==
    IF s = <<>> THEN <<>> ELSE LowerChar(Head(s)) \o LowerText(Tail(s))

\* str.strip(chars): drop the characters of cs from both ends
RECURSIVE LStrip(_, _)
LStrip(s, cs) ==
    IF s # <<>> /\ Head(s) \in cs THEN LStrip(Tail(s), cs) ELSE s

RECURSIVE RStrip(_, _)
RStrip(s, cs) ==
    IF s # <<>> /\ s[Len(s)] \in cs THEN RStrip(SubSeq(s, 1, Len(s) - 1), cs) ELSE s

Strip(s, cs) == RStrip(LStrip(s, cs), cs)

\* re.sub(r'[^\w\s-]', '', texto)
RemoveSpecial(s) ==
    SelectSeq(s, LAMBDA c : c \in WordChars \cup Whitespace \cup {"-"})

\* re.sub(r'[\s-]+', '_', slug)
RECURSIVE CollapseSeparators(_)
CollapseSeparators(s) ==
    IF s = <<>> THEN <<>>
    ELSE IF Head(s) \in Whitespace \cup {"-"}
         THEN <<"_">> \o CollapseSeparators(LStrip(s, Whitespace \cup {"-"}))
         ELSE <<Head(s)>> \o CollapseSeparators(Tail(s))

\* slugify(texto)
slugify(texto) ==
    Strip(LowerText(CollapseSeparators(RemoveSpecial(texto))), {"_"})

\* extrair_titulo_do_markdown: re.search(r'^# (.+)$', md, re.MULTILINE), then
\* group(1).strip().  None is <<>>: every caller only tests the truth value.
IsTitleLine(l) == Len(l) >= 3 /\ l[1] = "#" /\ l[2] = " "

RECURSIVE extrair_titulo_do_markdown(_)
extrair_titulo_do_markdown(conteudo_md) ==
    IF conteudo_md = <<>> THEN <<>>
    ELSE IF IsTitleLine(Head(conteudo_md))
         THEN Strip(SubSeq(Head(conteudo_md), 3, Len(Head(conteudo_md))), Whitespace)
         ELSE extrair_titulo_do_markdown(Tail(conteudo_md))

\* str(indice)
IntText(n) ==
    CASE n = 0 -> <<"0">> [] n = 1 -> <<"1">> [] n = 2 -> <<"2">>
      [] n = 3 -> <<"3">> [] OTHER -> <<"1", "0">>

TOPICO == <<"t", "o", "p", "i", "c", "o", "_">>
ROTEIRO == <<"r", "o", "t", "e", "i", "r", "o", "_">>
PILULA == <<"p", "i", "l", "u", "l", "a", "_">>

\* An object key: the name without its extension, and the extension.
Key(base, ext) == [base |-> base, ext |-> ext]

\* gerar_nome_arquivo(titulo, 'topico', indice)
gerar_nome_arquivo(titulo, prefixo, indice) ==
    IF titulo # <<>> THEN Key(prefixo \o slugify(titulo), ".md")
    ELSE Key(prefixo \o IntText(indice), ".md")

\* Python None in a text-valued field (error, title)
None == "None"

\* ------------------------------------------------- external capabilities
\* What one call of an external capability can answer.  A text generation
\* (gerar_conteudo) returns text or raises; carregar_insight_bucket returns
\* the stored document or '' (<<>>) on any error; gerar_infografico returns
\* bytes or None and never raises.
Gerado(texto) == [ok |-> TRUE, texto |-> texto, erro |-> None]
Falhou(erro) == [ok |-> FALSE, texto |-> <<>>, erro |-> erro]

LinhaTitulo(t) == <<"#", " ">> \o t
TituloPix == <<"P", "i", "x">>
TituloVoz == <<"V", "o", "z">>
\* insight documents the text generation can answer with
Markdowns == { <<LinhaTitulo(TituloPix), <<"t", "e", "x", "t", "o">>>>,
               <<LinhaTitulo(TituloVoz)>>,
               <<<<"t", "e", "x", "t", "o">>>> }
\* raw answers to the pill title prompt
TitulosGerados == { <<"'", "G", "o", "l", "p", "e", "'">> }
\* raw answers to the short-text and call-to-action prompts
TextosGerados == { <<" ", "o", "i", " ">> }
ErrosGeracao == {"GenerationError"}

\* ProcessingResult of processar_url(url, indice); gen is the answer of
\* gerar_conteudo(get_insight_prompt(url, texto_bruto))
processar_url(url, indice, gen) ==
    IF gen.ok
    THEN [url |-> url, indice |-> indice, markdown |-> gen.texto,
          titulo |-> extrair_titulo_do_markdown(gen.texto),
          nome_arquivo |-> gerar_nome_arquivo(
              extrair_titulo_do_markdown(gen.texto), TOPICO, indice),
          success |-> TRUE, error |-> None]
    ELSE [url |-> url, indice |-> indice, markdown |-> <<>>, titulo |-> <<>>,
          nome_arquivo |-> Key(TOPICO \o IntText(indice), ".md"),
          success |-> FALSE, error |-> gen.erro]

\* processar_insight without its except clause: the exception of the text
\* generation leaves the work item
processar_insight_propaga(arquivo, conteudo, gen) ==
    IF conteudo = <<>>
    THEN [arquivo_origem |-> arquivo, roteiro |-> <<>>, nome_roteiro |-> Key(<<>>, ""),
          success |-> FALSE, error |-> "Nao foi possivel carregar o arquivo do MinIO"]
    ELSE IF ~gen.ok
    THEN [arquivo_origem |-> arquivo, roteiro |-> <<>>, nome_roteiro |-> Key(<<>>, ""),
          success |-> FALSE, error |-> None, raised |-> gen.erro]
    ELSE [arquivo_origem |-> arquivo, roteiro |-> gen.texto,
          nome_roteiro |->
              IF extrair_titulo_do_markdown(conteudo) # <<>>
              THEN Key(ROTEIRO \o slugify(extrair_titulo_do_markdown(conteudo)), ".md")
              ELSE Key(ROTEIRO \o arquivo.base, ".md"),
          success |-> TRUE, error |-> None]

\* RoteiroResult of processar_insight(arquivo, ...); conteudo is what
\* carregar_insight_bucket(arquivo) returned, gen the answer of gerar_roteiro_video
processar_insight(arquivo, conteudo, gen) ==
    IF conteudo = <<>>
    THEN [arquivo_origem |-> arquivo, roteiro |-> <<>>, nome_roteiro |-> Key(<<>>, ""),
          success |-> FALSE, error |-> "Nao foi possivel carregar o arquivo do MinIO"]
    ELSE IF ~gen.ok
    THEN [arquivo_origem |-> arquivo, roteiro |-> <<>>, nome_roteiro |-> Key(<<>>, ""),
          success |-> FALSE, error |-> gen.erro]
    ELSE [arquivo_origem |-> arquivo, roteiro |-> gen.texto,
          nome_roteiro |->
              IF extrair_titulo_do_markdown(conteudo) # <<>>
              THEN Key(ROTEIRO \o slugify(extrair_titulo_do_markdown(conteudo)), ".md")
              ELSE Key(ROTEIRO \o arquivo.base, ".md"),
          success |-> TRUE, error |-> None]

DicaDeSeguranca == <<"D", "i", "c", "a", " ", "d", "e", " ",
                     "S", "e", "g", "u", "r", "a", "n", "c", "a">>

\* gerar_titulo_pilula(conteudo_insight): never raises, falls back to the
\* markdown title or to "Dica de Seguranca"
gerar_titulo_pilula(conteudo, gen) ==
    IF gen.ok THEN Strip(Strip(gen.texto, Whitespace), Quotes)
    ELSE IF extrair_titulo_do_markdown(conteudo) # <<>>
         THEN extrair_titulo_do_markdown(conteudo)
         ELSE DicaDeSeguranca

PillFalha(arquivo, erro) ==
    [arquivo_origem |-> arquivo, pill_id |-> <<>>, title |-> <<>>, short_text |-> <<>>,
     call_to_action |-> <<>>, infographic_filename |-> Key(<<>>, ""),
     infographic_bytes |-> None, success |-> FALSE, error |-> erro]

\* the PillResult returned at the end of the try block
PillSucesso(arquivo, ext) ==
    [arquivo_origem |-> arquivo,
     pill_id |-> PILULA \o slugify(gerar_titulo_pilula(ext.conteudo, ext.titulo)),
     title |-> gerar_titulo_pilula(ext.conteudo, ext.titulo),
     short_text |-> Strip(ext.texto.texto, Whitespace),
     call_to_action |-> Strip(Strip(ext.cta.texto, Whitespace), Quotes),
     infographic_filename |->
         Key(PILULA \o slugify(gerar_titulo_pilula(ext.conteudo, ext.titulo)), ".png"),
     infographic_bytes |-> ext.imagem,
     success |-> TRUE, error |-> None]

\* a processor for which a missing image is an error like a missing text
processar_pilula_exige_imagem(arquivo, ext) ==
    IF ext.conteudo = <<>> \/ ~ext.texto.ok \/ ~ext.cta.ok \/ ext.imagem = None
    THEN PillFalha(arquivo, "GenerationError")
    ELSE PillSucesso(arquivo, ext)

\* PillResult of processar_insight_para_pilula(arquivo, ...); ext holds the
\* answers of the calls it makes, in order: conteudo (load), titulo, texto,
\* cta (text generations) and imagem (gerar_infografico)
processar_insight_para_pilula(arquivo, ext) ==
    IF ext.conteudo = <<>> THEN PillFalha(arquivo, "Could not load file from MinIO")
    ELSE IF ~ext.texto.ok THEN PillFalha(arquivo, ext.texto.erro)
    ELSE IF ~ext.cta.ok THEN PillFalha(arquivo, ext.cta.erro)
    ELSE PillSucesso(arquivo, ext)

\* ------------------------------------------------------------ object store
Buckets == {"insights", "roteiros", "pilulas", "infograficos", "aulas"}
BucketVazio == [x \in {} |-> <<>>]

\* s3.put_object(Bucket, Key, Body): a put under an existing key replaces it
PutObject(objs, key, body) ==
    [x \in (DOMAIN objs) \cup {key} |-> IF x = key THEN body ELSE objs[x]]

\* the keys of a listing that end with the extension
ChavesCom(objs, ext) == {x \in DOMAIN objs : x.ext = ext}

\* Insight files the insights bucket can hold, in the order list_objects_v2
\* returns keys (binary order of the key)
ArqGuia == Key(<<"G", "u", "i", "a", "-", "P", "i", "x">>, ".md")
ArqTopico0 == Key(TOPICO \o <<"0">>, ".md")
ArqTopicoPix == Key(TOPICO \o <<"p", "i", "x">>, ".md")
OrdemListagem == <<ArqGuia, ArqTopico0, ArqTopicoPix>>
SemTitulo == <<<<"t", "e", "x", "t", "o">>>>
ConteudoInicial(arq) ==
    IF arq = ArqTopicoPix THEN <<LinhaTitulo(TituloPix), <<"t", "e", "x", "t", "o">>>>
    ELSE SemTitulo

Range(seq) == {seq[i] : i \in 1..Len(seq)}

InsightsIniciais ==
    {[x \in S |-> ConteudoInicial(x)] :
        S \in {T \in SUBSET Range(OrdemListagem) : T # {} /\ Cardinality(T) <= MaxItems}}

Pipelines == {"urls", "roteiros", "pilulas"}

\* ------------------------------------------------ parse_scenes_from_roteiro
\* A script is a sequence of tokens: words, numerals, the markup "##", "**",
\* ":", "[", "]" and the line break "\n"; blanks between tokens are implied.
\* "P600" stands for a paragraph of 600 characters of free text.
Numerais == {"1", "2", "3"}

\* re.IGNORECASE: the case-folded spelling the patterns are matched against
Fold(tok) ==
    CASE tok \in {"CENA", "Cena", "cena"} -> "cena"
      [] tok \in {"CENU+00C1RIO", "CenU+00E1rio"} -> "cenU+00E1rio"
      [] tok \in {"INFORMAU+00C7U+00D5ES", "InformaU+00E7U+00F5es"} -> "informaU+00E7U+00F5es"
      [] tok \in {"SCENE", "Scene"} -> "scene"
      [] tok \in {"VISUAL", "Visual", "visual"} -> "visual"
      [] tok \in {"AUDIO", "Audio", "audio"} -> "audio"
      [] tok \in {"U+00C1UDIO", "U+00C1udio"} -> "U+00E1udio"
      [] tok \in {"LOCUU+00C7U+00C3O", "LocuU+00E7U+00E3o"} -> "locuU+00E7U+00E3o"
      [] tok \in {"TRANSIU+00C7U+00C3O", "TransiU+00E7U+00E3o"} -> "transiU+00E7U+00E3o"
      [] OTHER -> tok

\* a pattern that knows the English spelling too
PalavraDeCenaOuScene(tok) == Fold(tok) \in {"cena", "cenU+00E1rio", "scene"}

\* (?:CENA|Cenário|Cena)
PalavraDeCena(tok) == Fold(tok) \in {"cena", "cenU+00E1rio"}
\* (?:CENA|Cenário|Cena|INFORMAÇÕES)
PalavraDeParada(tok) == PalavraDeCena(tok) \/ Fold(tok) = "informaU+00E7U+00F5es"
\* (?:VISUAL|Descrição visual)
RotuloVisual(tok) == Fold(tok) = "visual"
\* (?:AUDIO|ÁUDIO|Locução|TRANSIÇÃO)
RotuloDeCorte(tok) ==
    Fold(tok) \in {"audio", "U+00E1udio", "locuU+00E7U+00E3o", "transiU+00E7U+00E3o"}

\* the least index of a set of indices, or fim when the set is empty
Primeiro(S, fim) == IF S = {} THEN fim ELSE CHOOSE i \in S : \A j \in S : i <= j

\* ##\s*(?:CENA|Cenário|Cena)\s*(\d+)[^\n]*\n matches at token i
CabecalhoEm(t, i) ==
    /\ i + 2 <= Len(t)
    /\ t[i] = "##"
    /\ PalavraDeCena(t[i + 1])
    /\ t[i + 2] \in Numerais
    /\ \E n \in (i + 3)..Len(t) : t[n] = "\n"

\* a greedy section content: it runs to the end of the script
FimNoFinalDoTexto(t, i) == Len(t) + 1

\* (?=##\s*(?:CENA|Cenário|Cena|INFORMAÇÕES)|$): the first position from i on
\* where the section content ends
FimDaSecao(t, i) ==
    Primeiro({j \in i..Len(t) : /\ t[j] = "##"
                                /\ j + 1 <= Len(t)
                                /\ PalavraDeParada(t[j + 1])},
             Len(t) + 1)

\* re.findall(scene_pattern, roteiro): the (scene_num, scene_content) pairs,
\* scanning from token i; the scan resumes where the match ended
RECURSIVE Secoes(_, _)
Secoes(t, i) ==
    IF i > Len(t) THEN <<>>
    ELSE IF CabecalhoEm(t, i)
    THEN LET nl == Primeiro({n \in (i + 3)..Len(t) : t[n] = "\n"}, Len(t))
             fim == FimDaSecao(t, nl + 1)
         IN  <<[scene_num |-> t[i + 2], scene_content |-> SubSeq(t, nl + 1, fim - 1)]>>
             \o Secoes(t, fim)
    ELSE Secoes(t, i + 1)

\* [:\*]* then \s* after the label at k: the first token that is neither
RECURSIVE AposMarcas(_, _)
AposMarcas(c, i) ==
    IF i <= Len(c) /\ c[i] \in {":", "**"} THEN AposMarcas(c, i + 1) ELSE i
RECURSIVE AposBrancos(_, _)
AposBrancos(c, i) ==
    IF i <= Len(c) /\ c[i] = "\n" THEN AposBrancos(c, i + 1) ELSE i

\* re.search(visual pattern, scene_content).group(1): the text after the
\* first visual label that has text after it, up to the next audio or
\* transition label or the end; <<>> when there is no match.  When only
\* marks and blanks follow the label the pattern backtracks and captures the
\* last of them.
visual_match(c) ==
    LET ks == {k \in 1..Len(c) : RotuloVisual(c[k]) /\ k < Len(c)}
    IN  IF ks = {} THEN <<>>
        ELSE LET k == Primeiro(ks, 0)
                 ini == AposBrancos(c, AposMarcas(c, k + 1))
             IN  IF ini > Len(c) THEN <<c[Len(c)]>>
                 ELSE SubSeq(c, ini,
                             Primeiro({m \in (ini + 1)..Len(c) : RotuloDeCorte(c[m])},
                                      Len(c) + 1) - 1)

\* a clean-up that strips the blanks and keeps the brackets and the asterisks
LimparSoBrancos(d) == Strip(d, {"\n"})

\* re.sub(r'\[|\]', '', d), re.sub(r'\*+', '', d), .strip()
LimparDescricao(d) ==
    Strip(SelectSeq(d, LAMBDA tok : tok \notin {"[", "]", "**"}), {"\n"})

\* f"Cena {scene_num}: {visual_desc}"
CenaDe(scene_num, visual_desc) == <<"Cena", scene_num, ":">> \o visual_desc

\* the loop over the matches: a scene for every section with a visual
\* description that is not empty after the clean-up
RECURSIVE CenasDasSecoes(_)
CenasDasSecoes(ms) ==
    IF ms = <<>> THEN <<>>
    ELSE LET visual_desc == LimparDescricao(visual_match(Head(ms).scene_content))
         IN  (IF visual_desc # <<>>
              THEN <<CenaDe(Head(ms).scene_num, visual_desc)>> ELSE <<>>)
             \o CenasDasSecoes(Tail(ms))

\* characters of a token as written in the script, its trailing blank included
Chars(tok) ==
    CASE tok = "P600" -> 600
      [] tok \in {"\n", "[", "]", ":"} -> 1
      [] tok \in Numerais -> 2
      [] tok \in {"##", "**"} -> 2
      [] OTHER -> 6

\* roteiro[:n]: the tokens with the characters kept of each, <<tok, chars>>
RECURSIVE Prefixo(_, _)
Prefixo(t, n) ==
    IF t = <<>> \/ n <= 0 THEN <<>>
    ELSE IF Chars(Head(t)) >= n THEN << <<Head(t), n>> >>
    ELSE << <<Head(t), Chars(Head(t))>> >> \o Prefixo(Tail(t), n - Chars(Head(t)))

\* the characters the fallback keeps of the raw script
FallbackLimit == 1000

\* the parser without its fallback
parse_sem_fallback(roteiro_texto) == CenasDasSecoes(Secoes(roteiro_texto, 1))

parse_scenes_from_roteiro(roteiro_texto) ==
    LET scenes == CenasDasSecoes(Secoes(roteiro_texto, 1))
    IN  IF scenes = <<>> THEN <<Prefixo(roteiro_texto, FallbackLimit)>> ELSE scenes

VARIABLES
    pipeline,     \* the orchestrator this behaviour runs
    cfg,          \* get_config(): wipe_bucket_before_start, max_pills_per_run
    urls,         \* the URL list given to processar_urls_paralelo
    store,        \* bucket -> (key -> body)
    criados,      \* the buckets that exist
    run,          \* number of the current run
    pc,           \* position of the orchestrator
    existentes,   \* the existing-output index of this run
    pendentes,    \* the backlog submitted to the executor, in submission order
    futs,         \* position in pendentes -> state of its future
    concluidos,   \* positions in the order their futures completed
    resultados,   \* the results collected by the as_completed loop
    coletados,    \* futures the as_completed loop has consumed
    pos,          \* next result phase 2 persists
    gerados,      \* the returned list of persisted names
    persistidos,  \* history: the source of every result handed to salvar_*
    salvos_ok,    \* history: sources whose save returned True in this run
    anterior_ok,  \* history: salvos_ok of the previous run, if it completed
    vcfg,         \* gerar_video_veo: the configuration and the arguments of the call
    vpc,          \* gerar_video_veo: position
    pedidos,      \* the generate_videos requests submitted, in order
    op,           \* state of the operation being polled
    polls,        \* status checks of the current operation that found it pending
    ext_i,        \* the loop variable i of the extension loop
    current_video,\* the clip of the last successful step (0: none yet)
    duracao,      \* total_duration as computed before the final download
    retorno,      \* what gerar_video_veo returned
    falhas,       \* history: the steps of the call that failed
    blocos,       \* parse_scenes_from_roteiro: the script, block by block
    cenas,        \* what parse_scenes_from_roteiro returned
    ppc,          \* parse_scenes_from_roteiro: position
    entrada,      \* slugify: the text it is called with
    slug,         \* slugify(entrada)
    reslug,       \* slugify(slug)
    spc,          \* slugify: position
    principal,    \* main of videoGenerator / pillGenerator: position, validation result, answer
    outra,        \* a second execution of the same orchestrator on the same store
    contagem      \* processar_e_subir_videos: the counters sucessos and erros

veo == <<vcfg, vpc, pedidos, op, polls, ext_i, current_video, duracao, retorno, falhas>>

parser == <<blocos, cenas, ppc>>

slugs == <<entrada, slug, reslug, spc>>

demais == <<outra, contagem>>

vars == <<pipeline, cfg, urls, store, criados, run, pc, existentes, pendentes, futs,
          concluidos, resultados, coletados, pos, gerados, persistidos, salvos_ok,
          anterior_ok, veo, parser, slugs, demais, principal>>

config == <<pipeline, cfg, urls, veo, parser, slugs, demais, principal>>
exec == <<pendentes, futs, concluidos, resultados, coletados>>
fase2 == <<pos, gerados, persistidos, salvos_ok>>

\* ---- what the external calls of one work item can answer
RespostasInsight == {Gerado(m) : m \in Markdowns} \cup {Falhou(e) : e \in ErrosGeracao}
RoteirosGerados == { <<<<"c", "e", "n", "a">>>> }
RespostasRoteiro == {Gerado(r) : r \in RoteirosGerados} \cup {Falhou(e) : e \in ErrosGeracao}
Imagens == {"png", None}
RespostasTexto == {Gerado(t) : t \in TextosGerados} \cup {Falhou(e) : e \in ErrosGeracao}
RespostasTitulo == {Gerado(t) : t \in TitulosGerados} \cup {Falhou(e) : e \in ErrosGeracao}
RespostasPilula(conteudos) ==
    [conteudo : conteudos, titulo : RespostasTitulo, texto : RespostasTexto,
     cta : RespostasTexto, imagem : Imagens]

\* ---- the objects an earlier run of the pipeline can have left in its output
\* bucket: what its save stores for the successful results of its processor
SaidasUrls(lista) ==
    {[key |-> r.nome_arquivo, corpo |-> r.markdown] :
        r \in {x \in {processar_url(lista[i], i - 1, gen) :
                        i \in DOMAIN lista, gen \in RespostasInsight} : x.success}}

SaidasRoteiros(ins) ==
    {[key |-> r.nome_roteiro, corpo |-> r.roteiro] :
        r \in {x \in {processar_insight(a, ins[a], gen) :
                        a \in DOMAIN ins, gen \in RespostasRoteiro} : x.success}}

SaidasPilulas(ins) ==
    {[key |-> Key(r.pill_id, ".json"), corpo |-> [id |-> r.pill_id]] :
        r \in {x \in UNION {{processar_insight_para_pilula(a, ext) :
                                ext \in RespostasPilula({ins[a]})} : a \in DOMAIN ins} :
                 x.success}}

BucketCom(S) == [k \in {o.key : o \in S} |-> (CHOOSE o \in S : o.key = k).corpo]

BucketsAnteriores(saidas) ==
    {BucketCom(S) : S \in {T \in SUBSET saidas : Cardinality(T) <= MaxExistentes}}

BucketSaida(p) ==
    CASE p = "urls" -> "insights" [] p = "roteiros" -> "roteiros"
      [] p = "videos" -> "aulas" [] OTHER -> "pilulas"

\* no call of gerar_video_veo is in progress
VeoParado ==
    /\ vcfg = [use_vertex_ai |-> FALSE, vertex_gcs_bucket |-> FALSE, veo_extensions |-> 0,
               extensions |-> [given |-> FALSE, n |-> 0], scenes |-> <<>>]
    /\ vpc = "parado"
    /\ pedidos = <<>>
    /\ op = "nenhuma"
    /\ polls = 0
    /\ ext_i = 0
    /\ current_video = 0
    /\ duracao = 0
    /\ retorno = <<"None", 0>>
    /\ falhas = {}

\* a run that has not listed its outputs yet
CorridaNova ==
    [pc |-> "inicio", existentes |-> {}, arquivos |-> <<>>, pendentes |-> <<>>,
     resultados |-> <<>>, salvos |-> {}]

\* sucessos = 0, erros = 0
ContagemZerada == [sucessos |-> 0, erros |-> 0]

\* no second execution is being followed and nothing is counted
DemaisParados == outra = CorridaNova /\ contagem = ContagemZerada

\* no entry point is being followed
PrincipalParado ==
    principal = [pc |-> "parado", valid |-> "pendente", resposta |-> "nenhuma"]

\* no call of slugify is being followed
SlugParado ==
    /\ entrada = <<>>
    /\ slug = <<>>
    /\ reslug = <<>>
    /\ spc = "parado"

\* no call of parse_scenes_from_roteiro is in progress
ParserParado ==
    /\ blocos = <<>>
    /\ cenas = <<>>
    /\ ppc = "parado"

\* an orchestrator about to be called
InitOrquestrador ==
    /\ VeoParado
    /\ ParserParado
    /\ SlugParado
    /\ DemaisParados
    /\ pipeline \in Pipelines
    /\ cfg \in [wipe_bucket_before_start : BOOLEAN, max_pills_per_run : 0..MaxCap,
                max_videos_per_run : {0}, max_workers : 1..MaxWorkers]
    /\ pipeline # "urls" => ~cfg.wipe_bucket_before_start
    /\ pipeline # "pilulas" => cfg.max_pills_per_run = 0
    /\ urls \in {[i \in 1..n |-> i - 1] : n \in 1..MaxItems}
    /\ pipeline # "urls" => Len(urls) = 1
    /\ \E ins \in InsightsIniciais :
       \E ant \in BucketsAnteriores(CASE pipeline = "urls" -> SaidasUrls(urls)
                                      [] pipeline = "roteiros" -> SaidasRoteiros(ins)
                                      [] OTHER -> SaidasPilulas(ins)) :
          /\ pipeline = "urls" => ins = [x \in {ArqGuia} |-> ConteudoInicial(x)]
          /\ store = [b \in Buckets |->
                        IF b = BucketSaida(pipeline) THEN ant
                        ELSE IF b = "insights" THEN ins ELSE BucketVazio]
    /\ \E outros \in SUBSET {BucketSaida(pipeline)} :
          criados = outros \cup {b \in Buckets : store[b] # BucketVazio}
    /\ run = 1
    /\ pc = "inicio"
    /\ existentes = {}
    /\ pendentes = <<>>
    /\ futs = <<>>
    /\ concluidos = <<>>
    /\ resultados = <<>>
    /\ coletados = 0
    /\ pos = 1
    /\ gerados = <<>>
    /\ persistidos = <<>>
    /\ salvos_ok = {}
    /\ anterior_ok = {}

\* the orchestrator called on its own
Init == InitOrquestrador /\ PrincipalParado

\* executor.submit(...) for every item of the backlog
Submeter(itens) ==
    /\ pendentes' = itens
    /\ futs' = [i \in 1..Len(itens) |-> [st |-> "queued"]]
    /\ concluidos' = <<>>
    /\ resultados' = <<>>
    /\ coletados' = 0

\* ---- processar_urls_paralelo: wipe (if configured), then submit every URL.
\* garantir_bucket is not guarded: a failing list_buckets ends the run.
IniciarUrls ==
    /\ pc = "inicio" /\ pipeline = "urls"
    /\ \E bucket_ok \in BOOLEAN :
          IF cfg.wipe_bucket_before_start /\ ~bucket_ok
          THEN /\ pc' = "abortado"
               /\ UNCHANGED <<store, criados, exec>>
          ELSE /\ IF cfg.wipe_bucket_before_start
                  THEN /\ criados' = criados \cup {"insights"}
                       /\ store' = [store EXCEPT !["insights"] = BucketVazio]
                  ELSE UNCHANGED <<store, criados>>
               /\ Submeter(urls)
               /\ pc' = "fase1"
    /\ UNCHANGED <<config, run, existentes, fase2, anterior_ok>>

\* ---- listar_roteiros_existentes / listar_pilulas_existentes: the index is
\* the listing of the output bucket, or the empty set when the bucket is
\* missing or the listing fails
ListarExistentes(bucket, ext, listou) ==
    IF listou /\ bucket \in criados THEN ChavesCom(store[bucket], ext) ELSE {}

listar_roteiros_existentes ==
    /\ pc = "inicio" /\ pipeline = "roteiros"
    /\ \E listou \in BOOLEAN : existentes' = ListarExistentes("roteiros", ".md", listou)
    /\ pc' = "filtrar"
    /\ UNCHANGED <<config, store, criados, run, exec, fase2, anterior_ok>>

\* a listing whose error is not caught: the run ends with it
listar_pilulas_propaga ==
    /\ pc = "inicio" /\ pipeline = "pilulas"
    /\ \E listou \in BOOLEAN :
          /\ existentes' = ListarExistentes("pilulas", ".json", listou)
          /\ pc' = IF listou THEN "filtrar" ELSE "abortado"
    /\ UNCHANGED <<config, store, criados, run, exec, fase2, anterior_ok>>

listar_pilulas_existentes ==
    /\ pc = "inicio" /\ pipeline = "pilulas"
    /\ \E listou \in BOOLEAN : existentes' = ListarExistentes("pilulas", ".json", listou)
    /\ pc' = "filtrar"
    /\ UNCHANGED <<config, store, criados, run, exec, fase2, anterior_ok>>

\* listar_insights_bucket(): the .md keys but consolidado_insights.md, in
\* listing order; [] when the listing fails
listar_insights_bucket(listou) ==
    IF listou
    THEN SelectSeq(OrdemListagem, LAMBDA a : a \in DOMAIN store["insights"] /\ a.ext = ".md")
    ELSE <<>>

\* the expected output key the backlog filter of gerar_roteiros derives
roteiro_esperado(arquivo, conteudo) ==
    IF extrair_titulo_do_markdown(conteudo) # <<>>
    THEN Key(ROTEIRO \o slugify(extrair_titulo_do_markdown(conteudo)), ".md")
    ELSE Key(ROTEIRO \o slugify(arquivo.base), ".md")

\* the expected output key the backlog filter of gerar_pilulas derives
pilula_esperada(arquivo, conteudo) ==
    IF extrair_titulo_do_markdown(conteudo) # <<>>
    THEN Key(PILULA \o slugify(extrair_titulo_do_markdown(conteudo)), ".json")
    ELSE Key(PILULA \o slugify(arquivo.base), ".json")

\* gerar_roteiros without its filter loop: every listed file is pending
RoteirosSemFiltro(arquivos, carga, indice) == arquivos

\* the filter loop of gerar_roteiros: keep the files whose expected key is
\* not in the index (carga[a] is what carregar_insight_bucket(a) returned)
RoteirosPendentes(arquivos, carga, indice) ==
    SelectSeq(arquivos, LAMBDA a : roteiro_esperado(a, carga[a]) \notin indice)

\* the filter loop of gerar_pilulas
PilulasPendentes(arquivos, carga, indice) ==
    SelectSeq(arquivos, LAMBDA a : pilula_esperada(a, carga[a]) \notin indice)

\* a cap that keeps the last items of the backlog
LimitarAosUltimos(pend, maximo) ==
    IF maximo > 0 /\ Len(pend) > maximo
    THEN SubSeq(pend, Len(pend) - maximo + 1, Len(pend)) ELSE pend

\* arquivos_pendentes[:max_pills_per_run] when the cap is set and exceeded;
\* dict(list(roteiros_pendentes.items())[:max_videos_per_run]) likewise
LimitarPendentes(pend, maximo) ==
    IF maximo > 0 /\ Len(pend) > maximo THEN SubSeq(pend, 1, maximo) ELSE pend

\* what the loads of the filter loop can return: the document, or '' on error
Cargas == {[a \in DOMAIN store["insights"] |->
               IF a \in sem_carga THEN <<>> ELSE store["insights"][a]] :
           sem_carga \in SUBSET DOMAIN store["insights"]}

\* ---- gerar_roteiros, from the enumeration of the insights to the submits
FiltrarRoteiros ==
    /\ pc = "filtrar" /\ pipeline = "roteiros"
    /\ \E listou \in BOOLEAN, carga \in Cargas :
          LET arquivos == listar_insights_bucket(listou)
              pend == RoteirosPendentes(arquivos, carga, existentes)
          IN  IF pend = <<>>
              THEN pc' = "fim" /\ UNCHANGED exec
              ELSE pc' = "fase1" /\ Submeter(pend)
    /\ UNCHANGED <<config, store, criados, run, existentes, fase2, anterior_ok>>

\* ---- gerar_pilulas, from the enumeration of the insights to the submits
FiltrarPilulas ==
    /\ pc = "filtrar" /\ pipeline = "pilulas"
    /\ \E listou \in BOOLEAN, carga \in Cargas :
          LET arquivos == listar_insights_bucket(listou)
              pend == LimitarPendentes(PilulasPendentes(arquivos, carga, existentes),
                                       cfg.max_pills_per_run)
          IN  IF pend = <<>>
              THEN pc' = "fim" /\ UNCHANGED exec
              ELSE pc' = "fase1" /\ Submeter(pend)
    /\ UNCHANGED <<config, store, criados, run, existentes, fase2, anterior_ok>>

\* ---- ThreadPoolExecutor(max_workers): a free worker takes the oldest
\* queued work item
Executando == {i \in DOMAIN futs : futs[i].st = "running"}

\* a pool that starts a queued work item whatever the number running
WorkerStartSemLimite(i) ==
    /\ pc = "fase1"
    /\ futs[i].st = "queued"
    /\ \A j \in 1..(i - 1) : futs[j].st # "queued"
    /\ futs' = [futs EXCEPT ![i] = [st |-> "running"]]
    /\ UNCHANGED <<config, store, criados, run, pc, existentes, pendentes, concluidos,
                   resultados, coletados, fase2, anterior_ok>>

WorkerStart(i) ==
    /\ pc = "fase1"
    /\ futs[i].st = "queued"
    /\ \A j \in 1..(i - 1) : futs[j].st # "queued"
    /\ Cardinality(Executando) < cfg.max_workers
    /\ futs' = [futs EXCEPT ![i] = [st |-> "running"]]
    /\ UNCHANGED <<config, store, criados, run, pc, existentes, pendentes, concluidos,
                   resultados, coletados, fase2, anterior_ok>>

\* the work item returns (or raises): its future completes
Concluir(i, res) ==
    /\ futs' = [futs EXCEPT ![i] = [st |-> "done", res |-> res]]
    /\ concluidos' = Append(concluidos, i)
    /\ UNCHANGED <<config, store, criados, run, pc, existentes, pendentes, resultados,
                   coletados, fase2, anterior_ok>>


WorkerUrl(i) ==
    /\ pc = "fase1" /\ pipeline = "urls"
    /\ futs[i].st = "running"
    /\ \E gen \in RespostasInsight : Concluir(i, processar_url(pendentes[i], i - 1, gen))


\* what carregar_insight_bucket(arquivo) can return inside a worker
CargasDe(arquivo) ==
    {<<>>} \cup (IF arquivo \in DOMAIN store["insights"]
                 THEN {store["insights"][arquivo]} ELSE {})

WorkerRoteiro(i) ==
    /\ pc = "fase1" /\ pipeline = "roteiros"
    /\ futs[i].st = "running"
    /\ \E conteudo \in CargasDe(pendentes[i]), gen \in RespostasRoteiro :
          Concluir(i, processar_insight(pendentes[i], conteudo, gen))


WorkerPilula(i) ==
    /\ pc = "fase1" /\ pipeline = "pilulas"
    /\ futs[i].st = "running"
    /\ \E ext \in RespostasPilula(CargasDe(pendentes[i])) :
          Concluir(i, processar_insight_para_pilula(pendentes[i], ext))

\* ---- for future in as_completed(futures): future.result() is appended to
\* resultados; an exception of the work item is printed and nothing appended.
\* The loop ends, and the executor shuts down, when every future is consumed.
Levantou(res) == "raised" \in DOMAIN res

Coletar ==
    /\ pc = "fase1"
    /\ coletados < Len(concluidos)
    /\ LET res == futs[concluidos[coletados + 1]].res
       IN  resultados' = IF Levantou(res) THEN resultados ELSE Append(resultados, res)
    /\ coletados' = coletados + 1
    /\ pc' = IF coletados + 1 = Len(pendentes) THEN "fase2" ELSE "fase1"
    /\ UNCHANGED <<config, store, criados, run, existentes, pendentes, futs, concluidos,
                   fase2, anterior_ok>>

\* ---- phase 2: for resultado in resultados: salvar_*(resultado)
\* the results iterated from the last collected to the first
ResultadoInverso(res, p) == res[Len(res) + 1 - p]

\* the result the loop hands to salvar_* at its p-th iteration
ProximoResultado(res, p) == res[p]

\* garantir_bucket(b): creates the bucket when it is missing
garantir_bucket(existem, b) == existem \cup {b}

\* What the storage calls of one save answer, in call order: list_buckets of
\* the first garantir_bucket raises or not (bucket), of the second (bucket2),
\* the first put_object succeeds or not (put), the second (put2).  A call that
\* is not reached (the save ended before it) is left TRUE.
Armazenamento ==
    {st \in [bucket : BOOLEAN, bucket2 : BOOLEAN, put : BOOLEAN, put2 : BOOLEAN] :
        /\ ~st.bucket => st.bucket2
        /\ ~st.bucket2 => st.put
        /\ ~st.put => st.put2}
UmBucket == {st \in Armazenamento : st.bucket2 /\ st.put2}

\* the loop moves on to the next result
Avancar(origem) ==
    /\ pos' = pos + 1
    /\ persistidos' = Append(persistidos, origem)

\* salvar_resultado / salvar_roteiro: skip a failed result; else ensure the
\* bucket (unguarded), put (guarded, False on error), and report the name
SalvarTexto(bucket, origem, nome, corpo, success) ==
    IF ~success
    THEN /\ Avancar(origem)
         /\ UNCHANGED <<store, criados, pc, gerados, salvos_ok>>
    ELSE \E st \in UmBucket :
        IF ~st.bucket
        THEN /\ pc' = "abortado"
             /\ persistidos' = Append(persistidos, origem)
             /\ UNCHANGED <<store, criados, pos, gerados, salvos_ok>>
        ELSE /\ Avancar(origem)
             /\ criados' = garantir_bucket(criados, bucket)
             /\ pc' = pc
             /\ IF st.put
                THEN /\ store' = [store EXCEPT ![bucket] = PutObject(@, nome, corpo)]
                     /\ gerados' = Append(gerados, nome)
                     /\ salvos_ok' = salvos_ok \cup {origem}
                ELSE UNCHANGED <<store, gerados, salvos_ok>>

salvar_resultado ==
    /\ pc = "fase2" /\ pipeline = "urls"
    /\ pos <= Len(resultados)
    /\ LET r == ProximoResultado(resultados, pos)
       IN  SalvarTexto("insights", r.url, r.nome_arquivo, r.markdown, r.success)
    /\ UNCHANGED <<config, run, existentes, exec, anterior_ok>>

salvar_roteiro ==
    /\ pc = "fase2" /\ pipeline = "roteiros"
    /\ pos <= Len(resultados)
    /\ LET r == ProximoResultado(resultados, pos)
       IN  SalvarTexto("roteiros", r.arquivo_origem, r.nome_roteiro, r.roteiro, r.success)
    /\ UNCHANGED <<config, run, existentes, exec, anterior_ok>>

\* salvar_pilula: skip a failed result; ensure both buckets (unguarded); put
\* the JSON (False on error); put the infographic when there are bytes (a
\* failure is only a warning); report the pill
salvar_pilula ==
    /\ pc = "fase2" /\ pipeline = "pilulas"
    /\ pos <= Len(resultados)
    /\ LET r == ProximoResultado(resultados, pos)
           json == [id |-> r.pill_id]
       IN  IF ~r.success
           THEN /\ Avancar(r.arquivo_origem)
                /\ UNCHANGED <<store, criados, pc, gerados, salvos_ok>>
           ELSE \E st \in Armazenamento :
            IF ~st.bucket \/ ~st.bucket2
            THEN /\ pc' = "abortado"
                 /\ persistidos' = Append(persistidos, r.arquivo_origem)
                 /\ criados' = IF st.bucket THEN garantir_bucket(criados, "pilulas")
                               ELSE criados
                 /\ UNCHANGED <<store, pos, gerados, salvos_ok>>
            ELSE /\ Avancar(r.arquivo_origem)
                 /\ criados' = garantir_bucket(garantir_bucket(criados, "pilulas"),
                                               "infograficos")
                 /\ pc' = pc
                 /\ IF st.put
                    THEN /\ store' =
                              [store EXCEPT
                                 !["pilulas"] = PutObject(@, Key(r.pill_id, ".json"), json),
                                 !["infograficos"] =
                                     IF r.infographic_bytes # None /\ st.put2
                                     THEN PutObject(@, r.infographic_filename,
                                                    r.infographic_bytes)
                                     ELSE @]
                         /\ gerados' = Append(gerados, Key(r.pill_id, ".json"))
                         /\ salvos_ok' = salvos_ok \cup {r.arquivo_origem}
                    ELSE UNCHANGED <<store, gerados, salvos_ok>>
    /\ UNCHANGED <<config, run, existentes, exec, anterior_ok>>

\* the orchestrator returns the list of persisted names
Terminar ==
    /\ pc = "fase2"
    /\ pos > Len(resultados)
    /\ pc' = "fim"
    /\ UNCHANGED <<config, store, criados, run, existentes, exec, fase2, anterior_ok>>

\* the entry point is run again on the same store
NovaExecucao ==
    /\ pc \in {"fim", "abortado"}
    /\ run < MaxRuns
    /\ run' = run + 1
    /\ pc' = "inicio"
    /\ anterior_ok' = IF pc = "fim" THEN salvos_ok ELSE {}
    /\ existentes' = {}
    /\ pendentes' = <<>>
    /\ futs' = <<>>
    /\ concluidos' = <<>>
    /\ resultados' = <<>>
    /\ coletados' = 0
    /\ pos' = 1
    /\ gerados' = <<>>
    /\ persistidos' = <<>>
    /\ salvos_ok' = {}
    /\ UNCHANGED <<config, store, criados>>

Next ==
    \/ IniciarUrls
    \/ listar_roteiros_existentes
    \/ listar_pilulas_existentes
    \/ FiltrarRoteiros
    \/ FiltrarPilulas
    \/ \E i \in DOMAIN futs : WorkerStart(i)
    \/ \E i \in DOMAIN futs : WorkerUrl(i)
    \/ \E i \in DOMAIN futs : WorkerRoteiro(i)
    \/ \E i \in DOMAIN futs : WorkerPilula(i)
    \/ Coletar
    \/ salvar_resultado
    \/ salvar_roteiro
    \/ salvar_pilula
    \/ Terminar

\* one run of one of the three orchestrators
Spec == Init /\ [][Next]_vars

\* ---- one run whose pool threads are scheduled and whose work items return:
\* an idle pool thread takes the queued work item it can take, and a running
\* call of processar_url / processar_insight / processar_insight_para_pilula
\* returns or raises
PoolJusto ==
    \A i \in 1..MaxItems :
        /\ WF_vars(i \in DOMAIN futs /\ WorkerStart(i))
        /\ WF_vars(i \in DOMAIN futs /\ (WorkerUrl(i) \/ WorkerRoteiro(i) \/ WorkerPilula(i)))

\* processar_urls_paralelo and gerar_pilulas, from a store with no output of
\* an earlier run
InitPool ==
    /\ Init
    /\ pipeline \in {"urls", "pilulas"}
    /\ store[BucketSaida(pipeline)] = BucketVazio \/ pipeline = "urls"
    /\ cfg.max_pills_per_run = 0

NextPool ==
    \/ IniciarUrls
    \/ listar_pilulas_existentes
    \/ FiltrarPilulas
    \/ \E i \in DOMAIN futs : WorkerStart(i)
    \/ \E i \in DOMAIN futs : WorkerUrl(i)
    \/ \E i \in DOMAIN futs : WorkerPilula(i)
    \/ Coletar
    \/ salvar_resultado
    \/ salvar_pilula
    \/ Terminar

SpecPool == InitPool /\ [][NextPool]_vars /\ PoolJusto

\* ---- pillGenerator run again and again on the same store, from a store
\* with no pill yet
InitRerun ==
    /\ Init
    /\ pipeline = "pilulas"
    /\ store["pilulas"] = BucketVazio
    /\ criados = {"insights"}

NextRerun ==
    \/ listar_pilulas_existentes
    \/ FiltrarPilulas
    \/ \E i \in DOMAIN futs : WorkerStart(i)
    \/ \E i \in DOMAIN futs : WorkerPilula(i)
    \/ Coletar
    \/ salvar_pilula
    \/ Terminar
    \/ NovaExecucao

SpecRerun == InitRerun /\ [][NextRerun]_vars

\* ---- processar_insight_para_pilula call by call: the work item of the pill
\* pipeline as the sequence of the calls inside its try block
PassosDaPilula == <<"carregar", "titulo", "texto", "cta", "imagem">>

\* raw answers to a text prompt, among them an answer of white space only
TextosOuBrancos == TextosGerados \cup { <<" ">> }
\* str(e) of what a generation raises; str(Exception()) is ''
ErrosOuVazio == ErrosGeracao \cup {""}

\* what the call of one step can answer for the work item of arquivo
RespostasDoPasso(passo, arquivo) ==
    CASE passo = "carregar" -> CargasDe(arquivo)
      [] passo = "titulo" -> RespostasTitulo
      [] passo = "imagem" -> Imagens
      [] OTHER -> {Gerado(t) : t \in TextosOuBrancos} \cup {Falhou(e) : e \in ErrosOuVazio}

\* the step produced what it was called for
Produziu(passo, resp) ==
    CASE passo = "carregar" -> resp # <<>>
      [] passo = "imagem" -> resp # None
      [] OTHER -> resp.ok

\* every failing step but the load leaves the try block
AbortaSoNaCarga(passo, resp) == passo = "carregar" /\ ~Produziu(passo, resp)

\* the step leaves the try block for the except clause: an empty load raises,
\* gerar_texto_curto and gerar_call_to_action let the exception through;
\* gerar_titulo_pilula catches its own, gerar_infografico returns None
Aborta(passo, resp) == passo \in {"carregar", "texto", "cta"} /\ ~Produziu(passo, resp)

NaoChamado == Falhou("not called")
\* the answers of the calls of a work item before its first call
SemRespostas ==
    [conteudo |-> <<>>, titulo |-> NaoChamado, texto |-> NaoChamado, cta |-> NaoChamado,
     imagem |-> None]

Campo(passo) == IF passo = "carregar" THEN "conteudo" ELSE passo

\* the calls a running work item has made, and their answers
Chamadas(f) == IF "chamadas" \in DOMAIN f THEN f.chamadas ELSE <<>>
Ext(f) == IF "ext" \in DOMAIN f THEN f.ext ELSE SemRespostas

\* the next call of the work item in future i, or its return
PilulaPasso(i) ==
    /\ pc = "fase1" /\ pipeline = "pilulas"
    /\ futs[i].st = "running"
    /\ LET passo == PassosDaPilula[Len(Chamadas(futs[i])) + 1]
       IN  \E resp \in RespostasDoPasso(passo, pendentes[i]) :
           LET ext == [Ext(futs[i]) EXCEPT ![Campo(passo)] = resp]
               feitas == Append(Chamadas(futs[i]),
                                [passo |-> passo, ok |-> Produziu(passo, resp)])
           IN  IF Aborta(passo, resp) \/ passo = "imagem"
               THEN /\ futs' = [futs EXCEPT ![i] =
                          [st |-> "done",
                           res |-> processar_insight_para_pilula(pendentes[i], ext),
                           chamadas |-> feitas, ext |-> ext]]
                    /\ concluidos' = Append(concluidos, i)
               ELSE /\ futs' = [futs EXCEPT ![i] =
                          [st |-> "running", chamadas |-> feitas, ext |-> ext]]
                    /\ concluidos' = concluidos
    /\ UNCHANGED <<config, store, criados, run, pc, existentes, pendentes, resultados,
                   coletados, fase2, anterior_ok>>

\* a run over a store that holds one insight
InitPilula ==
    /\ Init
    /\ pipeline = "pilulas"
    /\ cfg.max_pills_per_run = 0
    /\ cfg.max_workers = 1
    /\ Cardinality(DOMAIN store["insights"]) = 1

NextPilula ==
    \/ listar_pilulas_existentes
    \/ FiltrarPilulas
    \/ \E i \in DOMAIN futs : WorkerStart(i)
    \/ \E i \in DOMAIN futs : PilulaPasso(i)
    \/ Coletar
    \/ salvar_pilula
    \/ Terminar

\* one run of the pill orchestrator, its work items call by call
SpecPilula == InitPilula /\ [][NextPilula]_vars

\* ---- processar_e_subir_videos: a sequential loop over the scripts of the
\* roteiros bucket that have no video in the aulas bucket yet
RoteiroGolpe == Key(ROTEIRO \o <<"g", "o", "l", "p", "e">>, ".md")
RoteiroPix == Key(ROTEIRO \o <<"p", "i", "x">>, ".md")
RoteiroVoz == Key(ROTEIRO \o <<"v", "o", "z">>, ".md")
\* the order in which list_objects_v2 returns the scripts
OrdemRoteiros == <<RoteiroGolpe, RoteiroPix, RoteiroVoz>>

RoteirosIniciais ==
    {[x \in S |-> CHOOSE r \in RoteirosGerados : TRUE] :
        S \in {T \in SUBSET Range(OrdemRoteiros) : Cardinality(T) <= MaxItems}}

\* nome_roteiro.replace('.md', '.mp4')
nome_video(nome_roteiro) == Key(nome_roteiro.base, ".mp4")

\* the videos an earlier run can have uploaded for the scripts
SaidasVideos(rot) == {[key |-> nome_video(a), corpo |-> "mp4"] : a \in DOMAIN rot}

InitProcessarVideos ==
    /\ VeoParado
    /\ ParserParado
    /\ SlugParado
    /\ DemaisParados
    /\ pipeline = "videos"
    /\ cfg \in [wipe_bucket_before_start : {FALSE}, max_pills_per_run : {0},
                max_videos_per_run : 0..MaxCap, max_workers : {1}]
    /\ urls = <<>>
    /\ \E rot \in RoteirosIniciais : \E ant \in BucketsAnteriores(SaidasVideos(rot)) :
          store = [b \in Buckets |->
                     IF b = "aulas" THEN ant ELSE IF b = "roteiros" THEN rot
                     ELSE BucketVazio]
    /\ \E outros \in SUBSET {"aulas", "roteiros"} :
          criados = outros \cup {b \in Buckets : store[b] # BucketVazio}
    /\ run = 1
    /\ pc = "inicio"
    /\ existentes = {}
    /\ pendentes = <<>>
    /\ futs = <<>>
    /\ concluidos = <<>>
    /\ resultados = <<>>
    /\ coletados = 0
    /\ pos = 1
    /\ gerados = <<>>
    /\ persistidos = <<>>
    /\ salvos_ok = {}
    /\ anterior_ok = {}

\* processar_e_subir_videos called on its own
InitVideos == InitProcessarVideos /\ PrincipalParado

\* the .md keys of the roteiros bucket, in listing order
RoteirosListados ==
    SelectSeq(OrdemRoteiros, LAMBDA a : a \in DOMAIN store["roteiros"] /\ a.ext = ".md")

\* garantir_bucket of both buckets (unguarded), then obter_roteiros: the
\* scripts read before the first storage error, all of them when there is
\* none; the function returns when no script was read
IniciarVideos ==
    /\ pc = "inicio" /\ pipeline = "videos"
    /\ \E bucket_ok \in BOOLEAN, bucket2_ok \in BOOLEAN, lidos \in 0..Len(RoteirosListados) :
          IF ~bucket_ok \/ ~bucket2_ok
          THEN /\ pc' = "abortado"
               /\ criados' = IF bucket_ok THEN garantir_bucket(criados, "aulas") ELSE criados
               /\ UNCHANGED pendentes
          ELSE /\ criados' = garantir_bucket(garantir_bucket(criados, "aulas"), "roteiros")
               /\ pendentes' = SubSeq(RoteirosListados, 1, lidos)
               /\ pc' = IF lidos = 0 THEN "fim" ELSE "listar"
    /\ UNCHANGED <<config, store, run, existentes, futs, concluidos, resultados, coletados,
                   fase2, anterior_ok>>

\* listar_videos_existentes: the .mp4 keys of the aulas bucket, or the empty
\* set when the listing fails
listar_videos_existentes ==
    /\ pc = "listar" /\ pipeline = "videos"
    /\ \E listou \in BOOLEAN : existentes' = ListarExistentes("aulas", ".mp4", listou)
    /\ pc' = "filtrar"
    /\ UNCHANGED <<config, store, criados, run, exec, fase2, anterior_ok>>

\* a loop that keeps every script, whatever the index holds
VideosSemFiltro(roteiros, indice) == roteiros

\* the filter loop of processar_e_subir_videos
VideosPendentes(roteiros, indice) ==
    SelectSeq(roteiros, LAMBDA a : nome_video(a) \notin indice)

\* the filter, the early return on an empty backlog, and the cap
FiltrarVideos ==
    /\ pc = "filtrar" /\ pipeline = "videos"
    /\ pendentes' = LimitarPendentes(VideosPendentes(pendentes, existentes),
                                     cfg.max_videos_per_run)
    /\ pc' = IF VideosPendentes(pendentes, existentes) = <<>> THEN "fim" ELSE "videos"
    /\ UNCHANGED <<config, store, criados, run, existentes, futs, concluidos, resultados,
                   coletados, fase2, anterior_ok>>

\* one iteration of the loop: gerar_video_veo returns bytes or None; the
\* bytes are uploaded (False on error)
GerarESubirVideo ==
    /\ pc = "videos"
    /\ pos <= Len(pendentes)
    /\ \E video_bytes \in {"mp4", None}, put \in BOOLEAN :
          /\ Avancar(pendentes[pos])
          /\ IF video_bytes # None /\ put
             THEN /\ store' = [store EXCEPT !["aulas"] =
                                  PutObject(@, nome_video(pendentes[pos]), video_bytes)]
                  /\ gerados' = Append(gerados, nome_video(pendentes[pos]))
                  /\ salvos_ok' = salvos_ok \cup {pendentes[pos]}
             ELSE UNCHANGED <<store, gerados, salvos_ok>>
    /\ UNCHANGED <<config, criados, run, pc, existentes, exec, anterior_ok>>

\* the loop is over: the summary is printed
TerminarVideos ==
    /\ pc = "videos"
    /\ pos > Len(pendentes)
    /\ pc' = "fim"
    /\ UNCHANGED <<config, store, criados, run, existentes, exec, fase2, anterior_ok>>

\* ---- the three entry points that compute a backlog from an index
InitBacklog ==
    \/ Init /\ pipeline \in {"roteiros", "pilulas"}
    \/ InitVideos

NextBacklog ==
    \/ listar_roteiros_existentes
    \/ listar_pilulas_existentes
    \/ FiltrarRoteiros
    \/ FiltrarPilulas
    \/ \E i \in DOMAIN futs : WorkerStart(i)
    \/ \E i \in DOMAIN futs : WorkerRoteiro(i)
    \/ \E i \in DOMAIN futs : WorkerPilula(i)
    \/ Coletar
    \/ salvar_roteiro
    \/ salvar_pilula
    \/ Terminar
    \/ IniciarVideos
    \/ listar_videos_existentes
    \/ FiltrarVideos
    \/ GerarESubirVideo
    \/ TerminarVideos

\* one run of gerar_roteiros, gerar_pilulas or processar_e_subir_videos
SpecBacklog == InitBacklog /\ [][NextBacklog]_vars

\* ---- the entry points videoGenerator.main and pillGenerator.main: the
\* pre-flight validation, then the orchestrator.  pipeline tells the entry
\* point and what it calls first: gerar_roteiros ("roteiros") or, with
\* SKIP_ROTEIRO_GENERATION, processar_e_subir_videos ("videos") for
\* videoGenerator; gerar_pilulas for pillGenerator.
InitMain ==
    /\ principal = [pc |-> "validar", valid |-> "pendente", resposta |-> "nenhuma"]
    /\ \/ /\ InitOrquestrador
          /\ pipeline \in {"roteiros", "pilulas"}
          /\ cfg.max_workers = 1
          /\ Cardinality(DOMAIN store["insights"]) = 1
       \/ InitProcessarVideos

\* what input() can return to the question "Continue without infographics?";
\* "EOF" is a closed standard input, on which input() raises EOFError
RespostasDoOperador == {"y", "Y", "n", "", "EOF"}

\* response.lower() == 'y'
Aceitou(resposta) == resposta \in {"y", "Y"}

\* a videoGenerator.main that goes on whatever the validation reports
MainVideoSemAbortar ==
    /\ principal.pc = "validar" /\ pipeline \in {"roteiros", "videos"}
    /\ \E valid \in BOOLEAN :
          principal' = [principal EXCEPT !.pc = "run",
                                         !.valid = IF valid THEN "sim" ELSE "nao"]
    /\ UNCHANGED <<pipeline, cfg, urls, store, criados, run, pc, existentes, exec, fase2,
                   anterior_ok, veo, parser, slugs, demais>>

\* videoGenerator.main: validar_configuracao_veo(), sys.exit(1) when invalid
MainVideo ==
    /\ principal.pc = "validar" /\ pipeline \in {"roteiros", "videos"}
    /\ \E valid \in BOOLEAN :
          principal' = [principal EXCEPT !.pc = IF valid THEN "run" ELSE "exit_1",
                                         !.valid = IF valid THEN "sim" ELSE "nao"]
    /\ UNCHANGED <<pipeline, cfg, urls, store, criados, run, pc, existentes, exec, fase2,
                   anterior_ok, veo, parser, slugs, demais>>

\* after the validation of pillGenerator.main: return when
\* SKIP_PILL_GENERATION is set, else call gerar_pilulas
AposValidacao(skip) == IF skip THEN "exit_0" ELSE "run"

\* pillGenerator.main: validar_configuracao_imagen(); when invalid the
\* operator is asked whether to continue
MainPill ==
    /\ principal.pc = "validar" /\ pipeline = "pilulas"
    /\ \E valid \in BOOLEAN, skip \in BOOLEAN :
          principal' = [principal EXCEPT !.pc = IF valid THEN AposValidacao(skip)
                                                ELSE "confirmar",
                                         !.valid = IF valid THEN "sim" ELSE "nao"]
    /\ UNCHANGED <<pipeline, cfg, urls, store, criados, run, pc, existentes, exec, fase2,
                   anterior_ok, veo, parser, slugs, demais>>

\* response = input(...): sys.exit(1) unless the answer is y
MainConfirmar ==
    /\ principal.pc = "confirmar"
    /\ \E resposta \in RespostasDoOperador, skip \in BOOLEAN :
          principal' = [principal EXCEPT !.pc = IF Aceitou(resposta) THEN AposValidacao(skip)
                                                ELSE "exit_1",
                                         !.resposta = resposta]
    /\ UNCHANGED <<pipeline, cfg, urls, store, criados, run, pc, existentes, exec, fase2,
                   anterior_ok, veo, parser, slugs, demais>>

\* the orchestrator returned (exit status 0) or an exception left it
MainRetornar ==
    /\ principal.pc = "run"
    /\ pc \in {"fim", "abortado"}
    /\ principal' = [principal EXCEPT !.pc = IF pc = "fim" THEN "exit_0" ELSE "exit_1"]
    /\ UNCHANGED <<pipeline, cfg, urls, store, criados, run, pc, existentes, exec, fase2,
                   anterior_ok, veo, parser, slugs, demais>>

NextMain ==
    \/ MainVideo
    \/ MainPill
    \/ MainConfirmar
    \/ principal.pc = "run" /\ NextBacklog
    \/ MainRetornar

\* one execution of videoGenerator.py or pillGenerator.py, up to the return
\* of the first orchestrator it calls
SpecMain == InitMain /\ [][NextMain]_vars

\* ---- two executions of gerar_roteiros or gerar_pilulas on the same store:
\* the one followed step by step above and a second one, followed call by
\* call.  Nothing in either orchestrator locks the store or claims an item.
InitConcorrente ==
    /\ Init
    /\ pipeline \in {"roteiros", "pilulas"}
    /\ cfg.max_workers = 1
    /\ cfg.max_pills_per_run = 0
    /\ Cardinality(DOMAIN store["insights"]) = 1

\* an index read again from the store when the filter loop runs
IndiceRelido ==
    ChavesCom(store[BucketSaida(pipeline)], IF pipeline = "pilulas" THEN ".json" ELSE ".md")

\* the index the filter loop of the second run tests the expected key against:
\* roteiros_existentes / pilulas_existentes, the local set built at the start
IndiceDaCorrida == outra.existentes

\* the second run calls listar_*_existentes()
OutraListar ==
    /\ outra.pc = "inicio"
    /\ \E listou \in BOOLEAN :
          outra' = [outra EXCEPT
                      !.existentes =
                          ListarExistentes(BucketSaida(pipeline),
                                           IF pipeline = "pilulas" THEN ".json" ELSE ".md",
                                           listou),
                      !.pc = "filtrar"]
    /\ UNCHANGED <<pipeline, cfg, urls, store, criados, run, pc, existentes, exec, fase2,
                   anterior_ok, veo, parser, slugs, principal, contagem>>

\* the second run enumerates the insights and filters them against its index
OutraFiltrar ==
    /\ outra.pc = "filtrar"
    /\ \E listou \in BOOLEAN, carga \in Cargas :
          LET arquivos == listar_insights_bucket(listou)
              pend == IF pipeline = "pilulas"
                      THEN LimitarPendentes(
                               PilulasPendentes(arquivos, carga, IndiceDaCorrida),
                               cfg.max_pills_per_run)
                      ELSE RoteirosPendentes(arquivos, carga, IndiceDaCorrida)
          IN  outra' = [outra EXCEPT !.arquivos = arquivos,
                                     !.pendentes = pend,
                                     !.pc = IF pend = <<>> THEN "fim" ELSE "fase1"]
    /\ UNCHANGED <<pipeline, cfg, urls, store, criados, run, pc, existentes, exec, fase2,
                   anterior_ok, veo, parser, slugs, principal, contagem>>

\* what the work item of arquivo can return in the pipeline of this behaviour
ResultadosDoItem(arquivo) ==
    IF pipeline = "pilulas"
    THEN {processar_insight_para_pilula(arquivo, ext) :
              ext \in RespostasPilula(CargasDe(arquivo))}
    ELSE {processar_insight(arquivo, conteudo, gen) :
              conteudo \in CargasDe(arquivo), gen \in RespostasRoteiro}

\* phase 1 of the second run, one work item at a time (max_workers = 1)
OutraProcessar ==
    /\ outra.pc = "fase1"
    /\ outra.pendentes # <<>>
    /\ \E res \in ResultadosDoItem(Head(outra.pendentes)) :
          outra' = [outra EXCEPT
                      !.pendentes = Tail(@),
                      !.resultados = IF Levantou(res) THEN @ ELSE Append(@, res),
                      !.pc = IF Len(outra.pendentes) = 1 THEN "fase2" ELSE "fase1"]
    /\ UNCHANGED <<pipeline, cfg, urls, store, criados, run, pc, existentes, exec, fase2,
                   anterior_ok, veo, parser, slugs, principal, contagem>>

\* the store after the puts of salvar_roteiro / salvar_pilula for result r
StoreComResultado(r, put2) ==
    IF pipeline = "pilulas"
    THEN [store EXCEPT
            !["pilulas"] = PutObject(@, Key(r.pill_id, ".json"), [id |-> r.pill_id]),
            !["infograficos"] =
                IF r.infographic_bytes # None /\ put2
                THEN PutObject(@, r.infographic_filename, r.infographic_bytes)
                ELSE @]
    ELSE [store EXCEPT !["roteiros"] = PutObject(@, r.nome_roteiro, r.roteiro)]

\* phase 2 of the second run: salvar_roteiro / salvar_pilula of the next result
OutraSalvar ==
    /\ outra.pc = "fase2"
    /\ outra.resultados # <<>>
    /\ LET r == Head(outra.resultados)
       IN  IF ~r.success
           THEN /\ outra' = [outra EXCEPT !.resultados = Tail(@)]
                /\ UNCHANGED <<store, criados>>
           ELSE \E st \in IF pipeline = "pilulas" THEN Armazenamento ELSE UmBucket :
                IF ~st.bucket \/ ~st.bucket2
                THEN /\ outra' = [outra EXCEPT !.pc = "abortado"]
                     /\ criados' = IF st.bucket
                                   THEN garantir_bucket(criados, BucketSaida(pipeline))
                                   ELSE criados
                     /\ UNCHANGED store
                ELSE /\ criados' =
                          IF pipeline = "pilulas"
                          THEN garantir_bucket(garantir_bucket(criados, "pilulas"),
                                               "infograficos")
                          ELSE garantir_bucket(criados, "roteiros")
                     /\ IF st.put
                        THEN /\ store' = StoreComResultado(r, st.put2)
                             /\ outra' = [outra EXCEPT
                                            !.resultados = Tail(@),
                                            !.salvos = @ \cup {r.arquivo_origem}]
                        ELSE /\ outra' = [outra EXCEPT !.resultados = Tail(@)]
                             /\ UNCHANGED store
    /\ UNCHANGED <<pipeline, cfg, urls, run, pc, existentes, exec, fase2,
                   anterior_ok, veo, parser, slugs, principal, contagem>>

\* the second run returns
OutraTerminar ==
    /\ outra.pc = "fase2"
    /\ outra.resultados = <<>>
    /\ outra' = [outra EXCEPT !.pc = "fim"]
    /\ UNCHANGED <<pipeline, cfg, urls, store, criados, run, pc, existentes, exec, fase2,
                   anterior_ok, veo, parser, slugs, principal, contagem>>

NextConcorrente ==
    \/ listar_roteiros_existentes
    \/ listar_pilulas_existentes
    \/ FiltrarRoteiros
    \/ FiltrarPilulas
    \/ \E i \in DOMAIN futs : WorkerStart(i)
    \/ \E i \in DOMAIN futs : WorkerRoteiro(i)
    \/ \E i \in DOMAIN futs : WorkerPilula(i)
    \/ Coletar
    \/ salvar_roteiro
    \/ salvar_pilula
    \/ Terminar
    \/ OutraListar
    \/ OutraFiltrar
    \/ OutraProcessar
    \/ OutraSalvar
    \/ OutraTerminar

SpecConcorrente == InitConcorrente /\ [][NextConcorrente]_vars


\* ------------------------------------------------------- gerar_video_veo
\* the pipeline state while a call of gerar_video_veo is modelled on its own
pipe == <<pipeline, cfg, urls, store, criados, run, pc, existentes, pendentes, futs,
          concluidos, resultados, coletados, pos, gerados, persistidos, salvos_ok,
          anterior_ok, parser, slugs, demais, principal>>

\* prompts: the n-th parsed scene, and the two fallback prompts
CenaPrompt(n) == <<"Cena", n>>
PromptTituloRoteiro == <<"titulo: roteiro[:1000]", 0>>
PromptContinuacao == <<"Continuacao de: titulo", 0>>

\* the extension count taken without looking at the backend
ExtensoesEmQualquerModo(c) ==
    IF c.extensions.given THEN c.extensions.n ELSE c.veo_extensions

\* extensions if extensions is not None else config.veo_extensions, forced to
\* 0 in Vertex AI mode
Extensoes(c) ==
    LET pedidas == IF c.extensions.given THEN c.extensions.n ELSE c.veo_extensions
    IN  IF c.use_vertex_ai /\ pedidas > 0 THEN 0 ELSE pedidas

\* scenes[0] if scenes else f"{titulo}: {roteiro[:1000]}"
initial_prompt(scenes) ==
    IF scenes # <<>> THEN scenes[1] ELSE PromptTituloRoteiro

\* scenes[1:] if len(scenes) > 1 else []
extension_prompts(scenes) ==
    IF Len(scenes) > 1 THEN Tail(scenes) ELSE <<>>

Min(a, b) == IF a <= b THEN a ELSE b

\* the extension count taken as configured, whatever the scenes
actual_extensions_pedidas(extensions, prompts) == extensions

\* min(extensions, len(extension_prompts)) if extension_prompts else extensions
actual_extensions(extensions, prompts) ==
    IF prompts # <<>> THEN Min(extensions, Len(prompts)) ELSE extensions

\* the prompt of the extension with loop index i (from 0)
scene_prompt(prompts, i) ==
    IF i < Len(prompts) THEN prompts[i + 1] ELSE PromptContinuacao

ExtensoesDaChamada == actual_extensions(Extensoes(vcfg), extension_prompts(vcfg.scenes))

\* the fixed length of one generated clip, in seconds
ClipSegundos == 8

\* (actual_extensions + 1) * 8
total_duration(n) == (n + 1) * ClipSegundos

\* the bytes of a clip
Bytes(clip) == <<"mp4", clip>>
SemBytes == <<"None", 0>>

\* no orchestrator is running
PipelineParado ==
    /\ pipeline = "urls"
    /\ cfg = [wipe_bucket_before_start |-> FALSE, max_pills_per_run |-> 0,
             max_videos_per_run |-> 0, max_workers |-> 1]
    /\ urls = <<>>
    /\ store = [b \in Buckets |-> BucketVazio]
    /\ criados = {}
    /\ run = 1
    /\ pc = "parado"
    /\ existentes = {}
    /\ pendentes = <<>>
    /\ futs = <<>>
    /\ concluidos = <<>>
    /\ resultados = <<>>
    /\ coletados = 0
    /\ pos = 1
    /\ gerados = <<>>
    /\ persistidos = <<>>
    /\ salvos_ok = {}
    /\ anterior_ok = {}

InitVeo ==
    /\ PipelineParado
    /\ ParserParado
    /\ SlugParado
    /\ DemaisParados
    /\ PrincipalParado
    /\ vcfg \in [use_vertex_ai : BOOLEAN, vertex_gcs_bucket : BOOLEAN,
                 veo_extensions : 0..MaxExt,
                 extensions : [given : BOOLEAN, n : 0..MaxExt],
                 scenes : {[j \in 1..n |-> CenaPrompt(j)] : n \in 0..MaxScenes}]
    /\ ~vcfg.extensions.given => vcfg.extensions.n = 0
    /\ vpc = "inicio"
    /\ pedidos = <<>>
    /\ op = "nenhuma"
    /\ polls = 0
    /\ ext_i = 0
    /\ current_video = 0
    /\ duracao = 0
    /\ retorno = SemBytes
    /\ falhas = {}

\* return from gerar_video_veo
Retornar(valor, falha) ==
    /\ vpc' = "retornou"
    /\ retorno' = valor
    /\ falhas' = falhas \cup falha

\* every request extends the first clip instead of the current one
PedirSobreInicial(tipo, prompt) ==
    /\ pedidos' = Append(pedidos, [tipo |-> tipo, prompt |-> prompt,
                                    video |-> IF current_video > 0 THEN 1 ELSE 0])
    /\ op' = "pendente"
    /\ polls' = 0

\* client.models.generate_videos(...): a request is submitted, its operation
\* is pending
Pedir(tipo, prompt) ==
    /\ pedidos' = Append(pedidos, [tipo |-> tipo, prompt |-> prompt, video |-> current_video])
    /\ op' = "pendente"
    /\ polls' = 0

\* from the call to the submit of the initial request: no client, or Vertex
\* AI mode without a GCS bucket, or a raising submit, returns None
VeoIniciar ==
    /\ vpc = "inicio"
    /\ \E cliente_ok \in BOOLEAN, submit_ok \in BOOLEAN :
          IF ~cliente_ok \/ (vcfg.use_vertex_ai /\ ~vcfg.vertex_gcs_bucket) \/ ~submit_ok
          THEN /\ Retornar(SemBytes, {"inicial"})
               /\ UNCHANGED <<pedidos, op, polls>>
          ELSE /\ Pedir("inicial", initial_prompt(vcfg.scenes))
               /\ vpc' = "poll_inicial"
               /\ UNCHANGED <<retorno, falhas>>
    /\ UNCHANGED <<pipe, vcfg, ext_i, current_video, duracao>>

\* what a status check of _poll_operation can find: the operation still
\* pending, done with a video, done with an error / no response / no video,
\* or the call itself raising
Estados == {"pendente", "video", "error", "sem_response", "sem_videos", "raise"}

\* a loop that runs one iteration more than range(actual_extensions)
AposPassoAMais(i) == IF i <= ExtensoesDaChamada THEN "estender" ELSE "baixar"

\* the extension loop goes on with index i, or is over
AposPasso(i) == IF i < ExtensoesDaChamada THEN "estender" ELSE "baixar"

\* _poll_operation on the initial request, and what gerar_video_veo does
\* with its answer
VeoPollInicial ==
    /\ vpc = "poll_inicial"
    /\ \E e \in Estados :
          CASE e = "pendente" ->
                 /\ polls < MaxPolls
                 /\ polls' = polls + 1
                 /\ UNCHANGED <<vpc, op, ext_i, current_video, retorno, falhas>>
            [] e = "video" ->
                 /\ op' = e
                 /\ current_video' = Len(pedidos)
                 /\ ext_i' = 0
                 /\ vpc' = AposPasso(0)
                 /\ UNCHANGED <<polls, retorno, falhas>>
            [] OTHER ->
                 /\ op' = e
                 /\ Retornar(SemBytes, {"inicial"})
                 /\ UNCHANGED <<polls, ext_i, current_video>>
    /\ UNCHANGED <<pipe, vcfg, pedidos, duracao>>

\* one iteration of the extension loop up to its submit: download the
\* current clip, submit the extension with the scene prompt
VeoEstender ==
    /\ vpc = "estender"
    /\ \E chamadas_ok \in BOOLEAN :
          IF chamadas_ok
          THEN /\ Pedir("extensao", scene_prompt(extension_prompts(vcfg.scenes), ext_i))
               /\ vpc' = "poll_ext"
               /\ UNCHANGED <<retorno, falhas>>
          ELSE /\ Retornar(SemBytes, {"extensao"})
               /\ UNCHANGED <<pedidos, op, polls>>
    /\ UNCHANGED <<pipe, vcfg, ext_i, current_video, duracao>>

\* _poll_operation on an extension request: a failed operation breaks the
\* loop, a raising call leaves through the except clause
VeoPollExtensao ==
    /\ vpc = "poll_ext"
    /\ \E e \in Estados :
          CASE e = "pendente" ->
                 /\ polls < MaxPolls
                 /\ polls' = polls + 1
                 /\ UNCHANGED <<vpc, op, ext_i, current_video, retorno, falhas>>
            [] e = "video" ->
                 /\ op' = e
                 /\ current_video' = Len(pedidos)
                 /\ ext_i' = ext_i + 1
                 /\ vpc' = AposPasso(ext_i + 1)
                 /\ UNCHANGED <<polls, retorno, falhas>>
            [] e = "raise" ->
                 /\ op' = e
                 /\ Retornar(SemBytes, {"extensao"})
                 /\ UNCHANGED <<polls, ext_i, current_video>>
            [] OTHER ->
                 /\ op' = e
                 /\ vpc' = "baixar"
                 /\ falhas' = falhas \cup {"extensao"}
                 /\ UNCHANGED <<polls, ext_i, current_video, retorno>>
    /\ UNCHANGED <<pipe, vcfg, pedidos, duracao>>

\* the final download: _download_video_bytes returns the bytes, returns None
\* (Vertex AI clip without a URI) or raises
VeoBaixar ==
    /\ vpc = "baixar"
    /\ duracao' = total_duration(ExtensoesDaChamada)
    /\ \E d \in {"bytes", "none", "raise"} :
          /\ d = "none" => vcfg.use_vertex_ai
          /\ IF d = "bytes" THEN Retornar(Bytes(current_video), {})
             ELSE Retornar(SemBytes, {"download"})
    /\ UNCHANGED <<pipe, vcfg, pedidos, op, polls, ext_i, current_video>>

NextVeo ==
    \/ VeoIniciar
    \/ VeoPollInicial
    \/ VeoEstender
    \/ VeoPollExtensao
    \/ VeoBaixar

\* one call of gerar_video_veo
SpecVeo == InitVeo /\ [][NextVeo]_vars

\* ---- processar_e_subir_videos with its calls of gerar_video_veo followed
\* step by step, run again and again on the same store
CenasDoRoteiro == {[j \in 1..n |-> CenaPrompt(j)] : n \in 1..MaxCenasDoRoteiro}

InitVideoVeo ==
    /\ ParserParado
    /\ SlugParado
    /\ DemaisParados
    /\ PrincipalParado
    /\ pipeline = "videos"
    /\ cfg \in [wipe_bucket_before_start : {FALSE}, max_pills_per_run : {0},
                max_videos_per_run : {0}, max_workers : {1}]
    /\ urls = <<>>
    /\ \E rot \in RoteirosIniciais :
          /\ rot # BucketVazio
          /\ store = [b \in Buckets |-> IF b = "roteiros" THEN rot ELSE BucketVazio]
    /\ criados = {"aulas", "roteiros"}
    /\ run = 1
    /\ pc = "inicio"
    /\ existentes = {}
    /\ pendentes = <<>>
    /\ futs = <<>>
    /\ concluidos = <<>>
    /\ resultados = <<>>
    /\ coletados = 0
    /\ pos = 1
    /\ gerados = <<>>
    /\ persistidos = <<>>
    /\ salvos_ok = {}
    /\ anterior_ok = {}
    /\ vcfg \in [use_vertex_ai : {FALSE}, vertex_gcs_bucket : {FALSE},
                 veo_extensions : 0..MaxExtensoesDoVideo,
                 extensions : {[given |-> FALSE, n |-> 0]}, scenes : {<<>>}]
    /\ vpc = "parado"
    /\ pedidos = <<>>
    /\ op = "nenhuma"
    /\ polls = 0
    /\ ext_i = 0
    /\ current_video = 0
    /\ duracao = 0
    /\ retorno = SemBytes
    /\ falhas = {}

\* video_bytes = gerar_video_veo(conteudo_roteiro, titulo): no scenes and no
\* extension count are passed; the scenes are parsed from the script
ChamarVeo ==
    /\ pc = "videos"
    /\ pos <= Len(pendentes)
    /\ vpc = "parado"
    /\ \E scenes \in CenasDoRoteiro : vcfg' = [vcfg EXCEPT !.scenes = scenes]
    /\ vpc' = "inicio"
    /\ pedidos' = <<>>
    /\ op' = "nenhuma"
    /\ polls' = 0
    /\ ext_i' = 0
    /\ current_video' = 0
    /\ duracao' = 0
    /\ retorno' = SemBytes
    /\ falhas' = {}
    /\ UNCHANGED pipe

\* the call of gerar_video_veo is over: its arguments and locals are gone;
\* what it returned, the clip behind it and the steps that failed are kept
LocaisDoVeoSaem ==
    /\ vpc' = "parado"
    /\ vcfg' = [vcfg EXCEPT !.scenes = <<>>]
    /\ pedidos' = <<>>
    /\ op' = "nenhuma"
    /\ polls' = 0
    /\ ext_i' = 0
    /\ duracao' = 0

\* a loop that counts a script without bytes as a success
SubirVideoContandoSucesso ==
    /\ pc = "videos"
    /\ pos <= Len(pendentes)
    /\ vpc = "retornou"
    /\ \E put \in BOOLEAN :
          /\ Avancar(pendentes[pos])
          /\ IF retorno # SemBytes /\ put
             THEN /\ store' = [store EXCEPT !["aulas"] =
                                  PutObject(@, nome_video(pendentes[pos]), retorno)]
                  /\ gerados' = Append(gerados, nome_video(pendentes[pos]))
                  /\ salvos_ok' = salvos_ok \cup {pendentes[pos]}
                  /\ contagem' = [contagem EXCEPT !.sucessos = @ + 1]
             ELSE /\ contagem' = [contagem EXCEPT !.sucessos = @ + 1]
                  /\ UNCHANGED <<store, gerados, salvos_ok>>
    /\ LocaisDoVeoSaem
    /\ UNCHANGED <<pipeline, cfg, urls, criados, run, pc, existentes, exec, anterior_ok,
                   current_video, retorno, falhas, parser, slugs, outra, principal>>

\* the rest of the iteration: no bytes is an error and the loop continues;
\* the bytes are uploaded under nome_video, a success when the upload
\* returns True, an error otherwise
SubirVideo ==
    /\ pc = "videos"
    /\ pos <= Len(pendentes)
    /\ vpc = "retornou"
    /\ \E put \in BOOLEAN :
          /\ Avancar(pendentes[pos])
          /\ IF retorno # SemBytes /\ put
             THEN /\ store' = [store EXCEPT !["aulas"] =
                                  PutObject(@, nome_video(pendentes[pos]), retorno)]
                  /\ gerados' = Append(gerados, nome_video(pendentes[pos]))
                  /\ salvos_ok' = salvos_ok \cup {pendentes[pos]}
                  /\ contagem' = [contagem EXCEPT !.sucessos = @ + 1]
             ELSE /\ contagem' = [contagem EXCEPT !.erros = @ + 1]
                  /\ UNCHANGED <<store, gerados, salvos_ok>>
    /\ LocaisDoVeoSaem
    /\ UNCHANGED <<pipeline, cfg, urls, criados, run, pc, existentes, exec, anterior_ok,
                   current_video, retorno, falhas, parser, slugs, outra, principal>>

\* the loop is over and no call is open
TerminarVideosVeo == vpc = "parado" /\ TerminarVideos

\* videoGenerator is run again on the same store
NovaExecucaoVideos ==
    /\ pc \in {"fim", "abortado"}
    /\ run < MaxRuns
    /\ run' = run + 1
    /\ pc' = "inicio"
    /\ anterior_ok' = IF pc = "fim" THEN salvos_ok ELSE {}
    /\ existentes' = {}
    /\ pendentes' = <<>>
    /\ pos' = 1
    /\ gerados' = <<>>
    /\ persistidos' = <<>>
    /\ salvos_ok' = {}
    /\ contagem' = ContagemZerada
    /\ UNCHANGED <<pipeline, cfg, urls, store, criados, futs, concluidos, resultados,
                   coletados, veo, parser, slugs, outra, principal>>

NextVideoVeo ==
    \/ IniciarVideos
    \/ listar_videos_existentes
    \/ FiltrarVideos
    \/ ChamarVeo
    \/ VeoIniciar
    \/ VeoPollInicial
    \/ VeoEstender
    \/ VeoPollExtensao
    \/ VeoBaixar
    \/ SubirVideo
    \/ TerminarVideosVeo
    \/ NovaExecucaoVideos

SpecVideoVeo == InitVideoVeo /\ [][NextVideoVeo]_vars

\* the operation being polled reaches a terminal state
OperacaoTermina == (VeoPollInicial \/ VeoPollExtensao) /\ op' # "pendente"

\* the program runs, and every operation it submits eventually reaches a
\* terminal state
SpecVideoVeoJusto ==
    /\ SpecVideoVeo
    /\ WF_vars(IniciarVideos \/ listar_videos_existentes \/ FiltrarVideos \/ ChamarVeo
                  \/ VeoIniciar \/ VeoEstender \/ VeoBaixar \/ SubirVideo
                  \/ TerminarVideosVeo)
    /\ WF_vars(OperacaoTermina)


\* ---------------------------------------- scripts handed to the parser
NumeralDe(n) == CASE n = 1 -> "1" [] n = 2 -> "2" [] OTHER -> "3"

\* header lines a script can have: a scene header in one of the spellings,
\* with a numeral; a header without numeral; the closing section; none
CabecalhosDeCena ==
    {<<"##", palavra, NumeralDe(n), "\n">> :
        palavra \in {"CENA", "CenU+00E1rio"}, n \in 1..MaxNumeral}
CabecalhosScene == {<<"##", "Scene", NumeralDe(n), "\n">> : n \in 1..MaxNumeral}
CabecalhoSemNumeral == <<"##", "Cena", "\n">>
CabecalhoInformacoes == <<"##", "INFORMAU+00C7U+00D5ES", "\n">>
Cabecalhos ==
    CabecalhosDeCena \cup CabecalhosScene
        \cup {CabecalhoSemNumeral, CabecalhoInformacoes, <<>>}

\* the lines under a header: a labelled visual description (and narration),
\* a description under the other label and in brackets, narration only, an
\* empty description, free text
CorpoVisual(desc) == <<"**", "VISUAL", ":", "**">> \o desc \o <<"\n">>
CorpoAudio == <<"**", "AUDIO", ":", "**", "n", "\n">>
CorpoA == CorpoVisual(<<"A">>) \o CorpoAudio
CorpoB == <<"DescriU+00E7U+00E3o", "visual", ":", "[", "B", "]", "\n">>
CorpoVazio == CorpoVisual(<<"[", "]">>)
CorpoLivre == <<"P600", "\n">>
Corpos == {CorpoA, CorpoB, CorpoAudio, CorpoVazio, CorpoLivre}

Bloco(cab, corpo) == [cab |-> cab, corpo |-> corpo]
Blocos == {Bloco(cab, corpo) : cab \in Cabecalhos, corpo \in Corpos}

\* the script of the scenario: headers "Scene 1", "Scene 2", "Cena 3"
PortaVermelha == <<"A", "red", "door", "opens">>
MaoNoBotao == <<"A", "hand", "presses", "a", "button">>
NascerDoSol == <<"Sunrise", "over", "a", "city">>
RoteiroScene ==
    << Bloco(<<"##", "Scene", "1", "\n">>, CorpoVisual(PortaVermelha)),
       Bloco(<<"##", "Scene", "2", "\n">>, CorpoVisual(MaoNoBotao)),
       Bloco(<<"##", "Cena", "3", "\n">>, CorpoVisual(NascerDoSol)) >>
\* the same descriptions under the headers the prompt asks for
RoteiroCena ==
    << Bloco(<<"##", "Cena", "1", "\n">>, CorpoVisual(PortaVermelha)),
       Bloco(<<"##", "CENA", "2", "\n">>, CorpoVisual(MaoNoBotao)),
       Bloco(<<"##", "CenU+00E1rio", "3", "\n">>, CorpoVisual(NascerDoSol)) >>

Roteiros ==
    UNION {[1..n -> Blocos] : n \in 0..MaxSecoes} \cup {RoteiroScene, RoteiroCena}

\* the text of a script
RECURSIVE Texto(_)
Texto(bs) == IF bs = <<>> THEN <<>> ELSE Head(bs).cab \o Head(bs).corpo \o Texto(Tail(bs))

InitParser ==
    /\ PipelineParado
    /\ VeoParado
    /\ SlugParado
    /\ DemaisParados
    /\ PrincipalParado
    /\ blocos \in Roteiros
    /\ cenas = <<>>
    /\ ppc = "inicio"

\* scenes = parse_scenes_from_roteiro(roteiro)
Parse ==
    /\ ppc = "inicio"
    /\ cenas' = parse_scenes_from_roteiro(Texto(blocos))
    /\ ppc' = "feito"
    /\ UNCHANGED <<pipeline, cfg, urls, store, criados, run, pc, existentes, pendentes,
                   futs, concluidos, resultados, coletados, pos, gerados, persistidos,
                   salvos_ok, anterior_ok, veo, blocos, slugs, demais, principal>>

NextParser == Parse

\* one call of parse_scenes_from_roteiro
SpecParser == InitParser /\ [][NextParser]_vars

\* ------------------------------------------------------------------ slugify
\* the characters of the texts slugify is followed on: a lower and an upper
\* case letter, two letters with a diacritic, the separators, the underscore
\* and a punctuation mark
Alfabeto == {"a", "G", "U+00E7", "U+0130", " ", "-", "_", "!"}

\* 'Protecao contra Golpes' with its cedilla and tilde, the example of the docstring
ProtecaoContraGolpes ==
    <<"P", "r", "o", "t", "e", "U+00E7", "U+00E3", "o", " ", "c", "o", "n", "t", "r", "a",
      " ", "G", "o", "l", "p", "e", "s">>

Textos == UNION {[1..n -> Alfabeto] : n \in 0..MaxTexto} \cup {ProtecaoContraGolpes}

InitSlug ==
    /\ PipelineParado
    /\ VeoParado
    /\ ParserParado
    /\ DemaisParados
    /\ PrincipalParado
    /\ entrada \in Textos
    /\ slug = <<>>
    /\ reslug = <<>>
    /\ spc = "inicio"

\* slug = slugify(texto)
Slugify ==
    /\ spc = "inicio"
    /\ slug' = slugify(entrada)
    /\ spc' = "slug"
    /\ UNCHANGED <<pipeline, cfg, urls, store, criados, run, pc, existentes, pendentes,
                   futs, concluidos, resultados, coletados, pos, gerados, persistidos,
                   salvos_ok, anterior_ok, veo, parser, principal, demais, entrada, reslug>>

\* the slug is slugified again, as the backlog filters do with a file name
\* that was built from a slug
SlugifyDeNovo ==
    /\ spc = "slug"
    /\ reslug' = slugify(slug)
    /\ spc' = "reslug"
    /\ UNCHANGED <<pipeline, cfg, urls, store, criados, run, pc, existentes, pendentes,
                   futs, concluidos, resultados, coletados, pos, gerados, persistidos,
                   salvos_ok, anterior_ok, veo, parser, principal, demais, entrada, slug>>

NextSlug == Slugify \/ SlugifyDeNovo

\* slugify applied to a text, and again to its result
SpecSlug == InitSlug /\ [][NextSlug]_vars

\* ================================================================ claims
\* the source item a result belongs to
Origem(r) == IF pipeline = "urls" THEN r.url ELSE r.arquivo_origem

\* the successful results among the collected ones
Sucessos == {k \in DOMAIN resultados : resultados[k].success}

\* C1: pill pipeline rerun: when a run of gerar_pilulas completed, the index
\* that listar_pilulas_existentes builds at the start of the next run holds,
\* for every insight file whose pill that run saved, the key the backlog
\* filter expects for the file (pilula_<slug of its markdown title or of its
\* file name>.json).
C1_IndiceContemChaveEsperada ==
    (/\ pipeline = "pilulas"
     /\ run >= 2
     /\ pc = "filtrar"
     /\ existentes = ChavesCom(store["pilulas"], ".json"))
    => \A a \in anterior_ok :
          pilula_esperada(a, store["insights"][a]) \in existentes

\* C2: script key consistency: the nome_roteiro of every successful result of
\* processar_insight is the key the backlog filter of gerar_roteiros expects
\* for the same file and content.
C2_ChaveDoRoteiroIgualEsperada ==
    \A i \in DOMAIN futs :
        (pipeline = "roteiros" /\ futs[i].st = "done" /\ futs[i].res.success)
        => futs[i].res.nome_roteiro =
               roteiro_esperado(pendentes[i], store["insights"][pendentes[i]])

\* the key a URL is saved under when its insight has no title
ChaveEsperadaUrl(indice) == Key(TOPICO \o IntText(indice), ".md")

\* a submitted file for which the filter derived, from the document or from
\* the file name alone (failed load), a key that is not in the index
ForaDoIndice(a) ==
    IF pipeline = "roteiros"
    THEN \/ roteiro_esperado(a, store["insights"][a]) \notin existentes
         \/ roteiro_esperado(a, <<>>) \notin existentes
    ELSE \/ pilula_esperada(a, store["insights"][a]) \notin existentes
         \/ pilula_esperada(a, <<>>) \notin existentes

\* C3 as stated: in every pipeline, the URL pipeline included, no item whose
\* expected output key is in the existing-output index is submitted in phase 1.
C3_FiltroEmTodosOsPipelines ==
    pc = "fase1" =>
        \A i \in DOMAIN pendentes :
            IF pipeline = "urls"
            THEN ChaveEsperadaUrl(i - 1) \notin ChavesCom(store["insights"], ".md")
            ELSE ForaDoIndice(pendentes[i])

\* C3 amended: in gerar_roteiros and gerar_pilulas no file is submitted for
\* which the filter derived a key that is in the index; processar_urls_paralelo
\* computes no backlog and submits every URL it is given.
C3_FiltroNosPipelinesDeInsights ==
    pc = "fase1" =>
        IF pipeline = "urls"
        THEN pendentes = urls
        ELSE \A i \in DOMAIN pendentes : ForaDoIndice(pendentes[i])

\* C3 witness: phase 1 of gerar_roteiros with a listed file left out of the
\* backlog because its expected key is in the index
C3_ArquivoPulado ==
    /\ pipeline = "roteiros" /\ pc = "fase1"
    /\ \E a \in DOMAIN store["insights"] :
          /\ a \notin Range(pendentes)
          /\ roteiro_esperado(a, store["insights"][a]) \in existentes

\* C4: every completed work item returned a result (no exception left the
\* processor), a failed one with success = FALSE and an error message; after
\* phase 1 the orchestrator holds exactly one result per submitted item.
C4_UmResultadoPorItem ==
    /\ \A i \in DOMAIN futs :
          futs[i].st = "done" =>
              /\ ~Levantou(futs[i].res)
              /\ futs[i].res.success \in BOOLEAN
              /\ ~futs[i].res.success => futs[i].res.error # None
    /\ pc \in {"fase2", "fim", "abortado"} =>
          /\ Len(resultados) = Len(pendentes)
          /\ \A i \in DOMAIN pendentes :
                Cardinality({k \in DOMAIN resultados :
                                Origem(resultados[k]) = pendentes[i]}) = 1

\* C4 witness: phase 1 is over with two submitted items, one failed
C4_FalhaColetada ==
    /\ pc = "fase2"
    /\ Len(pendentes) = 2
    /\ \E k \in DOMAIN resultados : ~resultados[k].success
    /\ \E k \in DOMAIN resultados : resultados[k].success

\* C5: when processar_urls_paralelo returns and every save succeeded, there
\* is one result per URL, the failed ones carry an error, and the store holds
\* one artifact per successful result.
C5_UmArtefatoPorSucesso ==
    (/\ pipeline = "urls"
     /\ pc = "fim"
     /\ Len(gerados) = Cardinality(Sucessos))
    => /\ Len(resultados) = Len(urls)
       /\ \A k \in DOMAIN resultados :
             ~resultados[k].success => resultados[k].error # None
       /\ Range(gerados) \subseteq DOMAIN store["insights"]
       /\ Cardinality(Range(gerados)) = Cardinality(Sucessos)

TodosConcluidos == \A i \in DOMAIN futs : futs[i].st = "done"

C7_TodosOsSucessosTentados ==
    (pc \in {"fim", "abortado"} /\ pendentes # <<>>)
    => /\ \A k \in Sucessos : k <= Len(persistidos)
       /\ Range(gerados) \subseteq DOMAIN store[BucketSaida(pipeline)]

\* the extension requests submitted so far
PedidosDeExtensao == {j \in DOMAIN pedidos : pedidos[j].tipo = "extensao"}

\* C8: video chain length: with extension count k on AI Studio, k + 1 scene
\* prompts and no failing external operation, gerar_video_veo submits one
\* initial request with the first scene, then k extension requests, each with
\* the next scene and the clip of the step before, and returns the bytes of
\* the clip of the last step.
C8_CadeiaCompleta ==
    (/\ vpc = "retornou"
     /\ ~vcfg.use_vertex_ai
     /\ Len(vcfg.scenes) = Extensoes(vcfg) + 1
     /\ falhas = {})
    => /\ Len(pedidos) = Extensoes(vcfg) + 1
       /\ pedidos[1] = [tipo |-> "inicial", prompt |-> vcfg.scenes[1], video |-> 0]
       /\ \A j \in 2..Len(pedidos) :
             pedidos[j] = [tipo |-> "extensao", prompt |-> vcfg.scenes[j], video |-> j - 1]
       /\ duracao = (Extensoes(vcfg) + 1) * ClipSegundos
       /\ retorno = Bytes(Len(pedidos))

\* C8 witness: a call with two extensions and three scenes returned the third
\* clip
C8_DuasExtensoesTresCenas ==
    /\ vpc = "retornou"
    /\ ~vcfg.use_vertex_ai
    /\ Extensoes(vcfg) = 2
    /\ Len(vcfg.scenes) = 3
    /\ falhas = {}
    /\ Len(pedidos) = 3
    /\ retorno = Bytes(3)

\* C9 as stated: for every extension count and every scene list (of at least
\* one scene), the extension requests are at most len(scenes) - 1.
C9_ExtensoesLimitadasPelasCenas ==
    Len(vcfg.scenes) >= 1 => Cardinality(PedidosDeExtensao) <= Len(vcfg.scenes) - 1

\* C9 amended: the extension requests are at most the extension count in
\* effect; with two scenes or more they are at most len(scenes) - 1 and the
\* j-th request carries the j-th scene; with fewer than two scenes the chain
\* is not cut short and every extension carries the generic continuation
\* prompt.
C9_ExtensoesLimitadasComDuasCenas ==
    /\ Cardinality(PedidosDeExtensao) <= Extensoes(vcfg)
    /\ Len(vcfg.scenes) >= 2 =>
          /\ Cardinality(PedidosDeExtensao) <= Len(vcfg.scenes) - 1
          /\ \A j \in PedidosDeExtensao : pedidos[j].prompt = vcfg.scenes[j]
    /\ Len(vcfg.scenes) < 2 =>
          \A j \in PedidosDeExtensao : pedidos[j].prompt = PromptContinuacao

\* C9 witness: two extensions configured, two scenes: the call returned after
\* a single extension
C9_CadeiaCortadaPelasCenas ==
    /\ vpc = "retornou"
    /\ Extensoes(vcfg) = 2
    /\ Len(vcfg.scenes) = 2
    /\ falhas = {}
    /\ Cardinality(PedidosDeExtensao) = 1

\* C10: partial output: when the initial clip was produced and an extension
\* step failed (the final download working), gerar_video_veo returns the
\* clip of the last successful step.
C10_ClipeParcialPreservado ==
    (/\ vpc = "retornou"
     /\ current_video >= 1
     /\ falhas = {"extensao"})
    => retorno = Bytes(current_video)

\* the prompt generation step j carries: the j-th scene while there is one
PromptDoPasso(j) ==
    IF j <= Len(vcfg.scenes) THEN vcfg.scenes[j]
    ELSE IF j = 1 THEN PromptTituloRoteiro ELSE PromptContinuacao

\* C11 as stated: a request is submitted only when the operation of the step
\* before ended with a clip, it carries that clip, and step j carries the
\* j-th parsed scene (for every scene list of at least one scene).
C11_PassosSequenciaisComCenaJ ==
    Len(vcfg.scenes) >= 1 =>
        /\ Len(pedidos) <= current_video + 1
        /\ \A j \in DOMAIN pedidos :
              /\ pedidos[j].video = j - 1
              /\ j <= Len(vcfg.scenes)
              /\ pedidos[j].prompt = vcfg.scenes[j]

\* C11 amended: steps are strictly sequential and every extension carries the
\* clip of the step before; step j carries the j-th scene when the scene list
\* has one, else the generic prompt (title and script for the initial step,
\* continuation of the title for an extension).
C11_PassosSequenciais ==
    [][pedidos' # pedidos =>
          /\ pedidos = <<>> \/ (op = "video" /\ current_video = Len(pedidos))
          /\ pedidos' = Append(pedidos, pedidos'[Len(pedidos')])
          /\ pedidos'[Len(pedidos')].video = Len(pedidos)
          /\ pedidos'[Len(pedidos')].tipo =
                 (IF pedidos = <<>> THEN "inicial" ELSE "extensao")
          /\ pedidos'[Len(pedidos')].prompt = PromptDoPasso(Len(pedidos'))]_vars

\* C11 witness: the second extension was submitted on the clip of the first,
\* with the third scene, and its operation is being polled
C11_SegundaExtensaoSobreAPrimeira ==
    /\ vpc = "poll_ext"
    /\ op = "pendente"
    /\ Len(pedidos) = 3
    /\ current_video = 2
    /\ pedidos[3] = [tipo |-> "extensao", prompt |-> CenaPrompt(3), video |-> 2]

\* C12: mode variance: in Vertex AI mode gerar_video_veo submits no extension
\* request, whatever extension count is configured or passed in: at most the
\* initial request is submitted and a successful call returns the first clip.
C12_VertexSemExtensoes ==
    vcfg.use_vertex_ai =>
        /\ PedidosDeExtensao = {}
        /\ Len(pedidos) <= 1
        /\ vpc \notin {"estender", "poll_ext"}
        /\ (vpc = "retornou" /\ falhas = {}) => retorno = Bytes(1)

\* C12 witness: a Vertex AI call with two extensions asked for and three
\* scenes returned the initial clip
C12_VertexRetornaClipeInicial ==
    /\ vcfg.use_vertex_ai
    /\ ExtensoesEmQualquerModo(vcfg) = 2
    /\ Len(vcfg.scenes) = 3
    /\ vpc = "retornou"
    /\ Len(pedidos) = 1
    /\ retorno = Bytes(1)

\* ---- scripts as their author structured them
\* the visual description written in a body (<<>>: none, or an empty one)
DescricaoEscrita(corpo) ==
    CASE corpo = CorpoA -> <<"A">>
      [] corpo = CorpoB -> <<"B">>
      [] corpo = CorpoVisual(PortaVermelha) -> PortaVermelha
      [] corpo = CorpoVisual(MaoNoBotao) -> MaoNoBotao
      [] corpo = CorpoVisual(NascerDoSol) -> NascerDoSol
      [] OTHER -> <<>>

\* a well-formed scene section: a "##" header with a scene word the parser
\* knows and a numeral, and a labelled visual description that is not empty
BemFormado(b) ==
    /\ Len(b.cab) = 4
    /\ b.cab[2] \in {"CENA", "Cena", "CenU+00E1rio"}
    /\ DescricaoEscrita(b.corpo) # <<>>

\* a section that is none of a scene: its header has no numeral, or it is
\* the closing section
SecaoSemCena(b) == b.cab \in {CabecalhoSemNumeral, CabecalhoInformacoes}

BemFormados(bs) == {i \in DOMAIN bs : BemFormado(bs[i])}

\* a script made of well-formed scene sections and of sections that are no
\* scenes, with at least one of the first
RoteiroBemFormado(bs) ==
    /\ BemFormados(bs) # {}
    /\ \A i \in DOMAIN bs : BemFormado(bs[i]) \/ SecaoSemCena(bs[i])

\* the well-formed sections in document order
SecoesBemFormadas(bs) == SelectSeq(bs, BemFormado)

\* C13 as stated: a script of exactly N well-formed scene sections is parsed
\* into N entries, in document order, the j-th carrying the ordinal j.
C13_NCenasComOrdinais1aN ==
    (ppc = "feito" /\ RoteiroBemFormado(blocos))
    => /\ Len(cenas) = Cardinality(BemFormados(blocos))
       /\ \A j \in DOMAIN cenas :
             cenas[j] = CenaDe(NumeralDe(j),
                               DescricaoEscrita(SecoesBemFormadas(blocos)[j].corpo))

\* C13 amended: a script of exactly N well-formed scene sections is parsed
\* into N entries, in document order, the j-th carrying the numeral written
\* in the header of the j-th section and its visual description.
C13_NCenasComNumeraisDosCabecalhos ==
    (ppc = "feito" /\ RoteiroBemFormado(blocos))
    => /\ Len(cenas) = Cardinality(BemFormados(blocos))
       /\ \A j \in DOMAIN cenas :
             cenas[j] = CenaDe(SecoesBemFormadas(blocos)[j].cab[3],
                               DescricaoEscrita(SecoesBemFormadas(blocos)[j].corpo))

\* C13 witness: a script of two well-formed sections numbered 1 and 2, with
\* different labels, was parsed into two scenes
C13_DuasSecoesDuasCenas ==
    /\ ppc = "feito"
    /\ blocos = <<Bloco(<<"##", "CENA", "1", "\n">>, CorpoA),
                  Bloco(<<"##", "CenU+00E1rio", "2", "\n">>, CorpoB)>>
    /\ cenas = <<CenaDe("1", <<"A">>), CenaDe("2", <<"B">>)>>

\* no block of the script has a scene header the parser knows
SemCabecalhoDeCena(bs) ==
    \A i \in DOMAIN bs : ~(Len(bs[i].cab) = 4 /\ bs[i].cab[2] \in {"CENA", "Cena", "CenU+00E1rio"})

\* no block of the script has a visual label
SemRotuloVisual(bs) == \A i \in DOMAIN bs : bs[i].corpo \in {CorpoAudio, CorpoLivre}

\* characters of a text, and characters kept in a cut text
RECURSIVE CharsDoTexto(_)
CharsDoTexto(t) == IF t = <<>> THEN 0 ELSE Chars(Head(t)) + CharsDoTexto(Tail(t))
RECURSIVE CharsMantidos(_)
CharsMantidos(e) == IF e = <<>> THEN 0 ELSE Head(e)[2] + CharsMantidos(Tail(e))

C15_SceneECenaReconhecidos ==
    (ppc = "feito" /\ blocos = RoteiroScene)
    => cenas = <<CenaDe("1", PortaVermelha), CenaDe("2", MaoNoBotao),
                 CenaDe("3", NascerDoSol)>>

\* C15 amended: only the spellings CENA, Cena and Cenário (in any case) are
\* scene headers.  The script with the headers "Scene 1", "Scene 2", "Cena 3"
\* is parsed into the single scene "Cena 3: Sunrise over a city"; the same
\* descriptions under "Cena 1", "CENA 2", "Cenário 3" are parsed into three
\* scenes, in order, with the numerals 1, 2, 3.
C15_SoCenaReconhecido ==
    ppc = "feito" =>
        /\ blocos = RoteiroScene => cenas = <<CenaDe("3", NascerDoSol)>>
        /\ blocos = RoteiroCena =>
              cenas = <<CenaDe("1", PortaVermelha), CenaDe("2", MaoNoBotao),
                        CenaDe("3", NascerDoSol)>>

\* C15 witness: the script of the scenario was parsed, into one scene
C15_RoteiroSceneUmaCena ==
    /\ ppc = "feito"
    /\ blocos = RoteiroScene
    /\ Len(cenas) = 1
    /\ cenas[1][2] = "3"

\* the futures of the run whose work item has returned
Concluidos == {i \in DOMAIN futs : futs[i].st = "done"}

\* C16: every PillResult returned by processar_insight_para_pilula satisfies:
\* success = false implies that title, short_text, call_to_action, pill_id
\* and the infographic are empty or absent and error is a non-empty string;
\* success = true implies that short_text and call_to_action.text are
\* non-empty, whatever text the generation returned.
C16_InvarianteDoResultadoDaPilula ==
    \A i \in Concluidos :
        LET r == futs[i].res
        IN  /\ ~r.success =>
                /\ r.title = <<>> /\ r.short_text = <<>> /\ r.call_to_action = <<>>
                /\ r.pill_id = <<>>
                /\ r.infographic_filename = Key(<<>>, "") /\ r.infographic_bytes = None
                /\ r.error \notin {"", None}
            /\ r.success => r.short_text # <<>> /\ r.call_to_action # <<>>

\* the calls of future i, among the steps S, that did not produce their text
Falhas(i, S) ==
    {k \in DOMAIN Chamadas(futs[i]) :
        Chamadas(futs[i])[k].passo \in S /\ ~Chamadas(futs[i])[k].ok}

\* the work item of future i ended at its k-th call with a failed result, and
\* the run persisted nothing for it
AbortadoNoPasso(i, k) ==
    /\ futs[i].st = "done"
    /\ ~futs[i].res.success
    /\ Len(Chamadas(futs[i])) = k
    /\ pendentes[i] \notin salvos_ok
    /\ gerados = <<>>

\* C17 (as stated): a failure of any text sub-step (title, short text,
\* call-to-action) aborts the item: the result has success = false, no later
\* sub-step is executed and no pill is persisted for the item.
C17_FalhaDeQualquerTextoAborta ==
    \A i \in Concluidos : \A k \in Falhas(i, {"titulo", "texto", "cta"}) :
        AbortadoNoPasso(i, k)

\* C17 (amended): a failure of the short-text or of the call-to-action
\* generation aborts the item (success = false, no later sub-step, nothing
\* persisted); a failure of the title generation does not: the next sub-steps
\* run and a successful result carries the title of the insight's markdown or
\* "Dica de Seguranca".
C17_FalhaDeTextoOuCtaAborta ==
    \A i \in DOMAIN futs :
        /\ \A k \in Falhas(i, {"texto", "cta"}) : AbortadoNoPasso(i, k)
        /\ (Falhas(i, {"titulo"}) # {} /\ futs[i].st = "done") =>
              /\ Len(Chamadas(futs[i])) >= 3
              /\ futs[i].res.success =>
                    /\ Len(Chamadas(futs[i])) = Len(PassosDaPilula)
                    /\ futs[i].res.title \in
                          {extrair_titulo_do_markdown(futs[i].ext.conteudo), DicaDeSeguranca}

\* the run ended after the call-to-action generation of its item failed: three
\* calls before it, no image call after it, nothing persisted
C17_CtaFalhouNadaPersistido ==
    /\ pc = "fim"
    /\ \E i \in DOMAIN futs :
          /\ Falhas(i, {"cta"}) = {4}
          /\ Len(Chamadas(futs[i])) = 4
          /\ ~futs[i].res.success
    /\ persistidos # <<>>
    /\ gerados = <<>>

\* the text calls of future i all produced their text and the image call
\* (the last one) returned None
SoAImagemFaltou(f) ==
    /\ Len(Chamadas(f)) = Len(PassosDaPilula)
    /\ \A k \in 1..4 : Chamadas(f)[k].ok
    /\ ~Chamadas(f)[5].ok

\* the result phase 2 hands to salvar_pilula next
ResultadoDaVez == ProximoResultado(resultados, pos)

\* C18: image failure is not fatal.  When title, short text and
\* call-to-action succeed and the image generation returns nothing, the result
\* has success = true, the three texts as generated (stripped) and no
\* infographic bytes; salvar_pilula of such a result puts the pill JSON,
\* reports success and writes no infographic (a failing JSON put apart, which
\* reports failure and stores nothing).
C18_FalhaDeImagemNaoFatal ==
    [][/\ \A i \in DOMAIN futs' :
             (futs'[i].st = "done" /\ SoAImagemFaltou(futs'[i])) =>
                 LET r == futs'[i].res
                     e == futs'[i].ext
                 IN  /\ r.success
                     /\ r.title = Strip(Strip(e.titulo.texto, Whitespace), Quotes)
                     /\ r.short_text = Strip(e.texto.texto, Whitespace)
                     /\ r.call_to_action = Strip(Strip(e.cta.texto, Whitespace), Quotes)
                     /\ r.infographic_bytes = None
       /\ (/\ pc = "fase2" /\ pos' = pos + 1
           /\ ResultadoDaVez.success /\ ResultadoDaVez.infographic_bytes = None) =>
                 /\ store'["infograficos"] = store["infograficos"]
                 /\ \/ /\ gerados' = Append(gerados, Key(ResultadoDaVez.pill_id, ".json"))
                       /\ Key(ResultadoDaVez.pill_id, ".json") \in DOMAIN store'["pilulas"]
                    \/ /\ gerados' = gerados
                       /\ store' = store]_vars

\* the run persisted a pill whose image is absent: its JSON is in the store,
\* the save reported it, and the infographic bucket is empty
C18_PilulaSemInfograficoPersistida ==
    /\ pc = "fim"
    /\ \E i \in Concluidos :
          /\ SoAImagemFaltou(futs[i])
          /\ futs[i].res.short_text # <<>>
          /\ gerados = <<Key(futs[i].res.pill_id, ".json")>>
          /\ Key(futs[i].res.pill_id, ".json") \in DOMAIN store["pilulas"]
    /\ store["infograficos"] = BucketVazio

\* the extension of the keys the index of the pipeline collects
ExtensaoDoIndice == CASE pipeline = "roteiros" -> ".md" [] pipeline = "pilulas" -> ".json"
                      [] OTHER -> ".mp4"

\* the orchestrator is about to build its existing-output index
PrestesAListar == pc = (IF pipeline = "videos" THEN "listar" ELSE "inicio")

\* the source items the run enumerates when its enumeration succeeds
ItensEnumerados ==
    IF pipeline = "videos" THEN pendentes ELSE listar_insights_bucket(TRUE)

\* the cap the pipeline applies to its backlog (gerar_roteiros has none)
CapDoPipeline ==
    CASE pipeline = "pilulas" -> cfg.max_pills_per_run
      [] pipeline = "videos" -> cfg.max_videos_per_run
      [] OTHER -> 0

\* the first items of a backlog a cap of n lets through (n = 0: all of them)
PrimeirosN(backlog, n) ==
    [k \in 1..(IF n > 0 /\ n < Len(backlog) THEN n ELSE Len(backlog)) |-> backlog[k]]

\* C19: listar_pilulas_existentes, listar_roteiros_existentes and
\* listar_videos_existentes never fail: the step always hands the run over to
\* the filter, with the listing of the output bucket or, when the bucket is
\* missing or the listing fails, with the empty set; with an empty index the
\* run goes on with every enumerated item treated as not produced (up to the
\* cap), unless the enumeration of the items itself returned nothing.
C19_IndiceNuncaFalha ==
    [][/\ PrestesAListar =>
             /\ pc' = "filtrar"
             /\ existentes' \in {{}, ChavesCom(store[BucketSaida(pipeline)], ExtensaoDoIndice)}
             /\ BucketSaida(pipeline) \notin criados => existentes' = {}
       /\ (pc = "filtrar" /\ existentes = {}) =>
             \/ pc' \in {"fase1", "videos"} /\ pendentes' = PrimeirosN(ItensEnumerados, CapDoPipeline)
             \/ pc' = "fim" /\ pipeline # "videos"]_vars

\* the pills bucket holds the pill an insight of the run would be skipped for,
\* the listing failed, and the insight is in the backlog of phase 1
C19_ListagemFalhouTudoPendente ==
    /\ pipeline = "pilulas" /\ pc = "fase1"
    /\ existentes = {}
    /\ \E i \in DOMAIN pendentes :
          pilula_esperada(pendentes[i], store["insights"][pendentes[i]])
              \in ChavesCom(store["pilulas"], ".json")
    /\ Len(pendentes) = Cardinality(DOMAIN store["insights"])

\* the backlogs the filter of the pipeline can compute in the current state
BacklogsPossiveis ==
    IF pipeline = "videos" THEN {VideosPendentes(pendentes, existentes)}
    ELSE {PilulasPendentes(listar_insights_bucket(listou), carga, existentes) :
             listou \in BOOLEAN, carga \in Cargas}

\* C20: per-run cap, in the pill and in the video pipeline.  With a maximum
\* n > 0 and a backlog of more than n items, exactly the first n items of the
\* backlog, in enumeration order, are attempted in the run; with a maximum of
\* 0 or a backlog of at most n items, the whole backlog is attempted.
C20_CapPrimeirosN ==
    [][/\ (pipeline \in {"pilulas", "videos"} /\ pc = "filtrar") =>
             \E backlog \in BacklogsPossiveis :
                 IF backlog = <<>> THEN pc' = "fim"
                 ELSE /\ pc' \in {"fase1", "videos"}
                      /\ pendentes' = PrimeirosN(backlog, CapDoPipeline)
                      /\ (CapDoPipeline > 0 /\ Len(backlog) > CapDoPipeline) =>
                             Len(pendentes') = CapDoPipeline
       /\ (pipeline = "pilulas" /\ pc = "fase1" /\ pc' = "fase2") =>
             /\ TodosConcluidos
             /\ DOMAIN futs = DOMAIN pendentes
       /\ (pc = "videos" /\ pc' = "fim") => persistidos = pendentes]_vars

\* two scripts without a video, a cap of one: the run attempted the first
\* script and left the second
C20_SoOPrimeiroRoteiroTentado ==
    /\ pipeline = "videos" /\ pc = "fim"
    /\ cfg.max_videos_per_run = 1
    /\ Len(RoteirosListados) = 2
    /\ store["aulas"] = BucketVazio
    /\ persistidos = <<RoteirosListados[1]>>

\* the code points that carry a diacritic (U+0307 is a combining mark)
ComDiacritico == {"U+00E7", "U+00E3", "U+00C7", "U+0130", "U+0307"}

ProtecaoSemDiacriticos ==
    <<"p", "r", "o", "t", "e", "c", "a", "o", "_", "c", "o", "n", "t", "r", "a", "_",
      "g", "o", "l", "p", "e", "s">>

\* C21: slugify is total and deterministic (the empty text gives the empty
\* slug), and for every text its slug is lowercase, has diacritics and
\* punctuation stripped ('Protecao contra Golpes' written with cedilla and
\* tilde gives protecao_contra_golpes), contains no white space and no hyphen,
\* has one underscore for each run of white space and hyphens, and neither
\* starts nor ends with an underscore.
C21_SlugCanonico ==
    spc \in {"slug", "reslug"} =>
        /\ entrada = <<>> => slug = <<>>
        /\ LowerText(slug) = slug
        /\ \A k \in DOMAIN slug :
              /\ slug[k] \notin ComDiacritico
              /\ slug[k] \in WordChars
              /\ slug[k] \notin Whitespace \cup {"-"}
        /\ (\A k \in DOMAIN entrada : entrada[k] # "_") =>
              \A k \in 1..(Len(slug) - 1) : ~(slug[k] = "_" /\ slug[k + 1] = "_")
        /\ slug # <<>> => slug[1] # "_" /\ slug[Len(slug)] # "_"
        /\ entrada = ProtecaoContraGolpes => slug = ProtecaoSemDiacriticos

\* no generation call was made and nothing was handed to a save in the run
SemTrabalho ==
    /\ pc = "inicio"
    /\ pendentes = <<>> /\ futs = <<>> /\ resultados = <<>>
    /\ persistidos = <<>> /\ gerados = <<>>

\* C22 (as stated): in videoGenerator.main and in pillGenerator.main, when the
\* pre-flight validation reports invalid the process exits with a non-zero
\* status and no generation call and no persistence happens in the run.
C22_ValidacaoInvalidaEncerra ==
    principal.valid = "nao" =>
        /\ principal.pc \in {"confirmar", "exit_1"}
        /\ SemTrabalho

\* C22 (amended): in videoGenerator.main an invalid validation exits with
\* status 1 before any work.  In pillGenerator.main it asks the operator: any
\* answer but y (or a closed input) exits with status 1 before any work; on y
\* the run goes on as after a valid validation.
C22_InvalidaEncerraSemConsentimento ==
    /\ principal.pc \in {"validar", "confirmar"} => SemTrabalho
    /\ principal.valid = "nao" =>
          \/ principal.pc \in {"confirmar", "exit_1"} /\ SemTrabalho
          \/ pipeline = "pilulas" /\ Aceitou(principal.resposta)
    /\ (principal.valid = "nao" /\ pipeline # "pilulas") => principal.pc = "exit_1"
    /\ (principal.valid = "nao" /\ principal.resposta # "nenhuma"
            /\ ~Aceitou(principal.resposta)) =>
          principal.pc = "exit_1"

\* videoGenerator.main exited with status 1 on an invalid validation, with
\* scripts to process in the bucket and nothing done
C22_VideoGeneratorEncerrou ==
    /\ pipeline = "videos"
    /\ principal = [pc |-> "exit_1", valid |-> "nao", resposta |-> "nenhuma"]
    /\ store["roteiros"] # BucketVazio
    /\ SemTrabalho

\* ---- C23
\* the expected output keys of insight a: from its title, or from its file
\* name when the load of the filter loop fails
ChavesEsperadas(a) ==
    IF pipeline = "pilulas"
    THEN {pilula_esperada(a, store["insights"][a]), pilula_esperada(a, <<>>)}
    ELSE {roteiro_esperado(a, store["insights"][a]), roteiro_esperado(a, <<>>)}

\* C23: the index of a run is built once, by its first call, and no later step
\* of the run changes it, whatever is written to the store meanwhile; and the
\* backlog of a run holds every enumerated insight whose expected keys are not
\* in that index, even when the other run has stored its output since
C23_IndiceConstruidoUmaVez ==
    [][/\ pc # "inicio" => existentes' = existentes
       /\ outra.pc # "inicio" => outra'.existentes = outra.existentes
       /\ outra.pc = "filtrar" =>
             \A k \in 1..Len(outra'.arquivos) :
                 ChavesEsperadas(outra'.arquivos[k]) \cap outra'.existentes = {} =>
                     outra'.arquivos[k] \in Range(outra'.pendentes)]_vars

\* both runs built their index before either stored anything, both had the
\* same insight in their backlog and both generated and stored its output
C23_DuasCorridasGeraramOMesmoItem ==
    /\ pc = "fim" /\ outra.pc = "fim"
    /\ existentes = {} /\ outra.existentes = {}
    /\ \E a \in DOMAIN store["insights"] :
          /\ a \in Range(pendentes) /\ a \in Range(outra.arquivos)
          /\ a \in salvos_ok /\ a \in outra.salvos

\* ---- C24
\* C24: at every moment of phase 1 at most max_workers work items are
\* running; a work item starts only when no item submitted before it is still
\* queued; and, the pool threads being scheduled and every processor call
\* returning, every submitted item is eventually executed to completion
C24_PoolLimitadoFifoTudoExecutado ==
    /\ [](pc = "fase1" => Cardinality(Executando) <= cfg.max_workers)
    /\ [][\A i \in DOMAIN futs :
             (i \in DOMAIN futs' /\ futs[i].st = "queued" /\ futs'[i].st = "running") =>
                 \A j \in 1..(i - 1) : futs[j].st # "queued"]_vars
    /\ \A i \in 1..MaxItems :
          (pc = "fase1" /\ i \in DOMAIN futs) ~> (i \in DOMAIN futs /\ futs[i].st = "done")

\* the pool is full and a submitted item waits in the queue
C24_PoolCheioItemNaFila ==
    /\ pc = "fase1"
    /\ Cardinality(Executando) = cfg.max_workers
    /\ \E i \in DOMAIN futs : futs[i].st = "queued"

\* ---- C25
\* a structurally detected scene section: a "##" header with a scene word
\* the parser knows and a numeral
Detectada(b) == Len(b.cab) = 4 /\ b.cab[2] \in {"CENA", "Cena", "CenU+00E1rio"}
Detectadas(bs) == SelectSeq(bs, Detectada)

\* the number a numeral stands for
Ordinal(numeral) == CASE numeral = "1" -> 1 [] numeral = "2" -> 2 [] OTHER -> 3

\* no scene was extracted: the list returned is the fallback
SoOFallback == CenasDasSecoes(Secoes(Texto(blocos), 1)) = <<>>

\* the strictly increasing maps of 1..n into 1..m
Crescentes(n, m) ==
    {f \in [1..n -> 1..m] : \A j \in 1..n, k \in 1..n : j < k => f[j] < f[k]}

\* C25 as stated: for every script the ordinals of the returned scenes are
\* strictly increasing starting at 1, and the number of entries is the number
\* of detected scene sections, or exactly 1 when none is detected.
C25_OrdinaisDe1ETantasQuantasSecoes ==
    ppc = "feito" =>
        IF Detectadas(blocos) = <<>> THEN Len(cenas) = 1
        ELSE /\ Len(cenas) = Len(Detectadas(blocos))
             /\ ~SoOFallback =>
                   /\ cenas[1][2] = "1"
                   /\ \A j \in 2..Len(cenas) :
                         Ordinal(cenas[j][2]) > Ordinal(cenas[j - 1][2])

\* C25 amended: the returned scenes carry the numerals written in the headers
\* of detected sections, in document order; there are at most as many as
\* detected sections and at least as many as sections with a labelled
\* description that is not empty; in a script made only of detected sections
\* and of sections that are no scenes, the sections whose description is
\* empty are dropped, so the count is the number of well-formed sections;
\* and when no scene is extracted the list has exactly one entry.
C25_NumeraisDosCabecalhosSecoesVaziasDescartadas ==
    ppc = "feito" =>
        IF SoOFallback THEN Len(cenas) = 1 /\ BemFormados(blocos) = {}
        ELSE LET det == Detectadas(blocos)
             IN  /\ Len(cenas) <= Len(det)
                 /\ Len(cenas) >= Cardinality(BemFormados(blocos))
                 /\ \E f \in Crescentes(Len(cenas), Len(det)) :
                       \A j \in DOMAIN cenas : cenas[j][2] = det[f[j]].cab[3]
                 /\ (\A i \in DOMAIN blocos : Detectada(blocos[i]) \/ SecaoSemCena(blocos[i]))
                       => Len(cenas) = Cardinality(BemFormados(blocos))

\* C25 witness: of two detected sections, headed 2 and 1, the second with an
\* empty description, one scene was returned, with the ordinal 2
C25_SecaoVaziaDescartadaOrdinal2 ==
    /\ ppc = "feito"
    /\ blocos = <<Bloco(<<"##", "CENA", "2", "\n">>, CorpoA),
                  Bloco(<<"##", "CENA", "1", "\n">>, CorpoVazio)>>
    /\ cenas = <<CenaDe("2", <<"A">>)>>

\* ---- C26
\* C26: nominal duration: in every call of gerar_video_veo that reached the
\* final download, the total duration computed is (extension steps completed
\* + 1) x 8 seconds, also when an extension step failed and the chain stopped
\* early.
C26_DuracaoDosPassosConcluidos ==
    duracao > 0 => duracao = (ext_i + 1) * ClipSegundos

\* ---- C27
\* gerar_video_veo is waiting in _poll_operation
Sondando == vpc \in {"poll_inicial", "poll_ext"}

\* the terminal states of an operation: done with a video, with an error,
\* without response, without video.  A status check that raises observes none.
Terminais == {"video", "error", "sem_response", "sem_videos"}

\* C27: gerar_video_veo never returns nor goes on to its next step while the
\* operation being polled is still pending: a call that submitted a request
\* returns only after the operation of its last request was seen in a
\* terminal state.
C27_SoRetornaComOperacaoTerminal ==
    (vpc = "retornou" /\ pedidos # <<>>) => op \in Terminais

\* the rest of C27, with the raising status check set apart: while the
\* operation polled is pending the call stays in the poll, whatever the
\* number of status checks made, it submits nothing, and the loop of
\* processar_e_subir_videos stays on the same script, storing and counting
\* nothing; when every submitted operation eventually reaches a terminal
\* state, every call of gerar_video_veo returns and the run ends
SondagemSemLimiteTerminaSeAOperacaoTermina ==
    /\ [][Sondando =>
             /\ op' = "pendente" =>
                   /\ vpc' = vpc
                   /\ UNCHANGED <<pedidos, retorno, current_video, ext_i>>
                   /\ UNCHANGED <<pos, store, gerados, contagem, pc>>
             /\ vpc' # vpc => (op = "pendente" /\ op' # "pendente")]_vars
    /\ [](Sondando => op = "pendente")
    /\ (vpc \notin {"parado", "retornou"}) ~> (vpc = "retornou")
    /\ <>(pc \in {"fim", "abortado"})

\* ---- C28
\* C28: when the initial generation fails, gerar_video_veo has submitted no
\* extension and returns nothing; the loop then stores nothing for the
\* script, counts one error and moves on to the next script; sucessos + erros
\* is the number of scripts attempted, all of the backlog at the end; and the
\* filter of a run keeps in the backlog every script read whose video is not
\* in the store, the failed one among them.
C28_FalhaInicialSemSaidaContadaComoErro ==
    /\ []((vpc = "retornou" /\ "inicial" \in falhas) =>
             /\ retorno = SemBytes
             /\ PedidosDeExtensao = {})
    /\ [][(vpc = "retornou" /\ vpc' = "parado" /\ retorno = SemBytes) =>
             /\ store' = store
             /\ gerados' = gerados
             /\ contagem' = [contagem EXCEPT !.erros = @ + 1]
             /\ pos' = pos + 1
             /\ pc' = "videos"]_vars
    /\ [](pc = "videos" => contagem.sucessos + contagem.erros = pos - 1)
    /\ [](pc = "fim" => contagem.sucessos + contagem.erros = Len(pendentes))
    /\ [][(pc = "filtrar" /\ pc' # pc) =>
             \A k \in DOMAIN pendentes :
                 nome_video(pendentes[k]) \notin DOMAIN store["aulas"] =>
                     pendentes[k] \in Range(pendentes')]_vars

\* C28 witness: the initial generation failed for the only script of the
\* first run, counted as its one error with nothing stored, and the second
\* run has the script in its backlog again
C28_RoteiroFalhadoDeNovoNoBacklog ==
    /\ run = 2
    /\ pc = "videos"
    /\ pos = 1
    /\ vpc = "parado"
    /\ falhas = {"inicial"}
    /\ retorno = SemBytes
    /\ Cardinality(DOMAIN store["roteiros"]) = 1
    /\ store["aulas"] = BucketVazio
    /\ DOMAIN store["roteiros"] = Range(pendentes)

\* ---- C29
\* C29: slugify is idempotent: for every text, slugify(slugify(T)) =
\* slugify(T), so a name built from a slug maps to itself when it is
\* slugified again.
C29_SlugifyIdempotente ==
    spc = "reslug" => reslug = slug

\* ---- C30
\* the script of the iteration that has just ended
RoteiroAnterior == pendentes[pos - 1]

\* C30 as stated: whenever an extension step failed after a clip was
\* produced, the loop has stored the shortened video under the video key of
\* the script and counted a success; and in a later run no script that has
\* its video key in the store is in the backlog.
C30_TruncadoGuardadoEPuladoSempre ==
    /\ (pc = "videos" /\ vpc = "parado" /\ pos > 1 /\ "extensao" \in falhas
           /\ current_video >= 1) =>
          /\ nome_video(RoteiroAnterior) \in DOMAIN store["aulas"]
          /\ RoteiroAnterior \in salvos_ok
    /\ (pc = "videos" /\ run > 1) =>
          \A k \in pos..Len(pendentes) :
              nome_video(pendentes[k]) \notin DOMAIN store["aulas"]

\* C30 amended: when an extension step fails by its operation ending without
\* a video, after at least one clip, and the final download works,
\* gerar_video_veo returns the last clip; the loop handles returned bytes the
\* same way whatever the chain behind them: uploaded under the video key of
\* the script and counted a success, or, when the upload fails, not stored
\* and counted an error; and a script whose video key is in the store is in
\* the backlog of a run only when the listing of the index failed.
C30_TruncadoGuardadoComoCompleto ==
    /\ []((vpc = "retornou" /\ falhas = {"extensao"} /\ op \in Terminais \ {"video"}) =>
             (current_video >= 1 /\ retorno = Bytes(current_video)))
    /\ [][(vpc = "retornou" /\ vpc' = "parado" /\ retorno # SemBytes) =>
             \/ /\ store' = [store EXCEPT !["aulas"] =
                                PutObject(@, nome_video(pendentes[pos]), retorno)]
                /\ salvos_ok' = salvos_ok \cup {pendentes[pos]}
                /\ contagem' = [contagem EXCEPT !.sucessos = @ + 1]
             \/ /\ store' = store
                /\ salvos_ok' = salvos_ok
                /\ contagem' = [contagem EXCEPT !.erros = @ + 1]]_vars
    /\ [](pc = "videos" =>
             \A k \in pos..Len(pendentes) :
                 nome_video(pendentes[k]) \in DOMAIN store["aulas"] => existentes = {})

\* C30 witness: the only script got a video of one clip, its extension having
\* failed, and the second run found the key in its index and skipped it
C30_SegundaExecucaoPulaOTruncado ==
    /\ run = 2
    /\ pc = "fim"
    /\ falhas = {"extensao"}
    /\ Cardinality(DOMAIN store["roteiros"]) = 1
    /\ \A a \in DOMAIN store["roteiros"] :
          /\ nome_video(a) \in existentes
          /\ store["aulas"][nome_video(a)] = Bytes(1)
          /\ a \in anterior_ok
    /\ pendentes = <<>>
    /\ contagem = ContagemZerada

====
